---- MODULE Spec2Model ----
(***************************************************************************)
(* Contour tracking and region association (scr.tracks, scr.sunspots,      *)
(* scr.geometry.raster).                                                   *)
(*                                                                         *)
(* Geometry is one-dimensional: the pixel grid is 0..GridW-1, a contour is *)
(* the boundary of the cell interval [lo, hi) with an orientation, its     *)
(* shoelace area is hi - lo, its raster mask is the set of grid cells of   *)
(* the interval, and a rigid transform is an integer shift.  Real numbers  *)
(* (thresholds, ratios) are fractions compared by cross-multiplication.    *)
(***************************************************************************)
EXTENDS Integers, Sequences, FiniteSets, TLC

\* ---------------------------------------------------------------- bounds
GridW == 3
MaxFrames == 3
MaxCand == 2
MaxGap == 2
MaxMinArea == 2
MaxMinFrames == 2
MaxTracks == 2
MaxPostFrames == 2
MaxPerFrame == 2
MaxOps == 2
MaxAssocContours == 2

MaxResidualQ == 14

MaxInnerContours == 1

MaxRows == 3

MaxFilters == 2

MaxWidth == 2

MaxObs == 1

MaxSpots == 2

MaxSelFrames == 2

MaxRepFrames == 5

MaxNFrames == 4

\* ------------------------------------------------------ program constants
\* iou_threshold = 0.3
IouNum == 3
IouDen == 10
\* area_ratio_bounds = (0.5, 2.0)
RminNum == 1
RminDen == 2
RmaxNum == 2
RmaxDen == 1
\* ransac(..., rng=42)
RansacSeed == 42
\* min_containment = 0.8
McNum == 4
McDen == 5

VARIABLES
    run,     \* the calls of track_contours: run[r] is the state of call r
    post,    \* a Tracks structure and the operations applied to it
    cr,      \* a call of containment_ratio
    assoc,   \* a call of associate_inner_outer_tracks
    reg,     \* a call of register_images_pairwise
    pipe,    \* a call of track_and_merge_sunspots, after its matcher runs
    fdf,     \* a call of filter_combined_df
    nc,      \* a call of nested_cast
    sel,     \* a call of apply_standard_sunspot_filter
    rep      \* a call of select_representative_frames

vars == <<run, post, cr, assoc, reg, pipe, fdf, nc, sel, rep>>

\* ------------------------------------------------------------- geometry
Pixels == 0 .. (GridW - 1)

Ctr(lo, hi, ccw) == [lo |-> lo, hi |-> hi, ccw |-> ccw]

\* Signed shoelace area: positive for counter-clockwise contours.
contour_signed_area(c) == IF c.ccw THEN c.hi - c.lo ELSE c.lo - c.hi

contour_area(c) == IF contour_signed_area(c) < 0 THEN 0 - contour_signed_area(c)
                   ELSE contour_signed_area(c)

\* Rasterisation of one contour on the grid (cells outside the grid are clipped).
contours_to_mask(c) == {p \in Pixels : c.lo <= p /\ p < c.hi}

\* EuclideanTransform applied to the contour's points.
warp_contour(c, tr) == [c EXCEPT !.lo = c.lo + tr, !.hi = c.hi + tr]

Identity == 0

Transforms == {0, 1}

\* compute_iou(mask1, mask2) >= num/den, with IoU = 0.0 for an empty union.
IouAtLeast(mask1, mask2, num, den) ==
    LET intersection == Cardinality(mask1 \cap mask2)
        union == Cardinality(mask1 \cup mask2)
    IN IF union > 0 THEN intersection * den >= num * union
       ELSE 0 >= num

\* rmin <= contour_area(c) / prev_area <= rmax; a zero prev_area gives inf or nan,
\* which is never inside finite bounds.
AreaRatioOk(c, prev_area) ==
    /\ prev_area > 0
    /\ RminNum * prev_area <= contour_area(c) * RminDen
    /\ contour_area(c) * RmaxDen <= RmaxNum * prev_area

\* ------------------------------------------------------- sequence helpers
RECURSIVE InsertDesc(_, _)
\* Insert the pair x = <<key, item>> into s, sorted by descending key, after every
\* pair whose key is >= x's key: a stable sort with reverse=True.
InsertDesc(s, x) ==
    IF s = <<>> THEN <<x>>
    ELSE IF Head(s)[1] >= x[1] THEN <<Head(s)>> \o InsertDesc(Tail(s), x)
         ELSE <<x>> \o s

RECURSIVE SortDesc(_, _)
\* The first n pairs <<key, item>> of s, sorted by descending key (stable).
SortDesc(s, n) ==
    IF n = 0 THEN <<>>
    ELSE InsertDesc(SortDesc(s, n - 1), s[n])

\* sorted(contours, key=contour_area, reverse=True)
sorted_by_area(s) ==
    LET keyed == [i \in DOMAIN s |-> <<contour_area(s[i]), s[i]>>]
        srt == SortDesc(keyed, Len(s))
    IN [i \in DOMAIN s |-> srt[i][2]]

any(assigned) == \E i \in DOMAIN assigned : assigned[i]

\* ----------------------------------------------------------- registration
\* What a pair of images gives the tiers of register_images_pairwise: whether the
\* feature tier reaches a consensus fit, whether the correlation tier yields a
\* reasonable shift, and the shift the data support.
PairData == [feat : BOOLEAN, corr : BOOLEAN, shift : {1}]

\* The consensus fit left unseeded: its random state is the process's own.
RansacRngUnseeded(e) == e

\* The random state the consensus fit runs with in process e: rng=42, whatever the
\* process (an unseeded generator would draw its state from the process, and no
\* two processes share one).
RansacRng(e) == RansacSeed

\* The model of a consensus fit on data supporting `shift`, run with random state
\* rng: a function of both.
ransac(shift, rng) == (shift + rng) % 2

\* The transform register_images_pairwise returns: the feature tier's model, else
\* the correlation tier's translation, else the identity.
register_images_pairwise(pd, e) ==
    IF pd.feat THEN ransac(pd.shift, RansacRng(e))
    ELSE IF pd.corr THEN pd.shift
    ELSE Identity

\* ------------------------------------------------------------- the matcher
\* The contours an image may hold; the last one is a hole (clockwise).
Shapes == {Ctr(0, GridW, TRUE), Ctr(0, 2, TRUE), Ctr(2, GridW, FALSE)}

\* The contours find_contours extracts from one image, in extraction order.
ImageContours ==
    {s \in UNION {[1 .. n -> Shapes] : n \in 0 .. MaxCand} :
        \A i, j \in DOMAIN s : i # j => s[i] # s[j]}

\* filter_contours_by_area(contours, threshold_min=min_area)
RECURSIVE filter_contours_by_area(_, _)
filter_contours_by_area(contours, threshold_min) ==
    IF contours = <<>> THEN <<>>
    ELSE IF threshold_min <= contour_area(Head(contours))
         THEN <<Head(contours)>> \o filter_contours_by_area(Tail(contours), threshold_min)
         ELSE filter_contours_by_area(Tail(contours), threshold_min)

\* Whether candidate c matches the prior contour prev_c warped by tr.
Matches(c, prev_c, tr) ==
    /\ AreaRatioOk(c, contour_area(prev_c))
    /\ IouAtLeast(contours_to_mask(warp_contour(prev_c, tr)), contours_to_mask(c),
                  IouNum, IouDen)

RECURSIVE FirstMatch(_, _, _, _, _)
\* Best match: the unassigned matching candidate of highest IoU with prev_c, the
\* first of them on a tie, or 0.
BestMatch(contours, assigned, prev_c, tr, i) ==
    LET prev_mask == contours_to_mask(warp_contour(prev_c, tr))
        inter(n) == Cardinality(prev_mask \cap contours_to_mask(contours[n]))
        union(n) == Cardinality(prev_mask \cup contours_to_mask(contours[n]))
        ok == {n \in i .. Len(contours) :
                  ~assigned[n] /\ Matches(contours[n], prev_c, tr)}
        best == {n \in ok : \A o \in ok : inter(o) * union(n) <= inter(n) * union(o)}
    IN IF ok = {} THEN 0 ELSE CHOOSE n \in best : \A o \in best : n <= o

\* The candidate loop: the index of the first unassigned candidate from i on that
\* matches prev_c, or 0.
FirstMatch(contours, assigned, prev_c, tr, i) ==
    IF i > Len(contours) THEN 0
    ELSE IF ~assigned[i] /\ Matches(contours[i], prev_c, tr) THEN i
         ELSE FirstMatch(contours, assigned, prev_c, tr, i + 1)

RECURSIVE PrevScan(_, _, _, _, _)
\* The loop over the prior contours of one frame: the candidate accepted, or 0. The
\* loop ends after a prior contour once any candidate of the frame is assigned.
PrevScan(prevs, j, contours, assigned, tr) ==
    IF j > Len(prevs) THEN 0
    ELSE LET m == FirstMatch(contours, assigned, prevs[j], tr, 1)
         IN IF m # 0 THEN m
            ELSE IF any(assigned) THEN 0
                 ELSE PrevScan(prevs, j + 1, contours, assigned, tr)

\* The invocations of register_images_pairwise, counted per pair_key, after one
\* more for pair_key.
Invoked(calls, pair_key) ==
    IF pair_key \in DOMAIN calls THEN [calls EXCEPT ![pair_key] = @ + 1]
    ELSE calls @@ (pair_key :> 1)

\* The lookup without `if pair_key not in registration_cache`: the transform is
\* computed at every lookup.
CacheAlwaysComputed(cache, pair_key, registration, pd, e) ==
    LET tr == IF registration THEN register_images_pairwise(pd, e) ELSE Identity
    IN [store |-> IF pair_key \in DOMAIN cache.store
                  THEN [cache.store EXCEPT ![pair_key] = tr]
                  ELSE cache.store @@ (pair_key :> tr),
        calls |-> IF registration THEN Invoked(cache.calls, pair_key) ELSE cache.calls]

\* registration_cache (store) and the invocations of register_images_pairwise
\* (calls) after the lookup of pair_key = (t_prev, t).
CacheWith(cache, pair_key, registration, pd, e) ==
    IF pair_key \in DOMAIN cache.store THEN cache
    ELSE [store |-> cache.store @@
                      (pair_key :> (IF registration THEN register_images_pairwise(pd, e)
                                    ELSE Identity)),
          calls |-> IF registration THEN Invoked(cache.calls, pair_key) ELSE cache.calls]

RECURSIVE DtScan(_, _, _, _, _, _, _, _, _)
\* The lookback loop over range(1, max_gap): the farthest lookback is lost.
DtScanShort(hist, dt, t, contours, assigned, cache, p, regdata, e) ==
    IF dt >= p.max_gap THEN [hit |-> 0, cache |-> cache]
    ELSE IF t - dt < 0 \/ (t - dt) \notin DOMAIN hist
         THEN DtScan(hist, dt + 1, t, contours, assigned, cache, p, regdata, e)
         ELSE LET pair_key == <<t - dt, t>>
                  cache2 == CacheWith(cache, pair_key, p.registration, regdata[dt], e)
                  m == PrevScan(sorted_by_area(hist[t - dt]), 1, contours, assigned,
                                cache2.store[pair_key])
              IN IF m # 0 \/ any(assigned) THEN [hit |-> m, cache |-> cache2]
                 ELSE DtScan(hist, dt + 1, t, contours, assigned, cache2, p, regdata, e)

\* The lookback loop over range(1, max_gap + 2): one frame farther than max_gap.
DtScanLong(hist, dt, t, contours, assigned, cache, p, regdata, e) ==
    IF dt > p.max_gap + 1 THEN [hit |-> 0, cache |-> cache]
    ELSE IF t - dt < 0 \/ (t - dt) \notin DOMAIN hist
         THEN DtScan(hist, dt + 1, t, contours, assigned, cache, p, regdata, e)
         ELSE LET pair_key == <<t - dt, t>>
                  pd == IF dt \in DOMAIN regdata THEN regdata[dt]
                        ELSE CHOOSE d \in PairData : TRUE
                  cache2 == CacheWith(cache, pair_key, p.registration, pd, e)
                  m == PrevScan(sorted_by_area(hist[t - dt]), 1, contours, assigned,
                                cache2.store[pair_key])
              IN IF m # 0 \/ any(assigned) THEN [hit |-> m, cache |-> cache2]
                 ELSE DtScan(hist, dt + 1, t, contours, assigned, cache2, p, regdata, e)

\* The lookback loop of one track: [hit |-> the candidate accepted or 0,
\* cache |-> the registration cache afterwards].
DtScan(hist, dt, t, contours, assigned, cache, p, regdata, e) ==
    IF dt > p.max_gap THEN [hit |-> 0, cache |-> cache]
    ELSE IF t - dt < 0 \/ (t - dt) \notin DOMAIN hist
         THEN DtScan(hist, dt + 1, t, contours, assigned, cache, p, regdata, e)
         ELSE LET pair_key == <<t - dt, t>>
                  cache2 == CacheWith(cache, pair_key, p.registration, regdata[dt], e)
                  m == PrevScan(sorted_by_area(hist[t - dt]), 1, contours, assigned,
                                cache2.store[pair_key])
              IN IF m # 0 \/ any(assigned) THEN [hit |-> m, cache |-> cache2]
                 ELSE DtScan(hist, dt + 1, t, contours, assigned, cache2, p, regdata, e)

\* hist.setdefault(t, []).append(c)
AppendAt(hist, t, c) ==
    IF t \in DOMAIN hist THEN [hist EXCEPT ![t] = Append(@, c)]
    ELSE hist @@ (t :> <<c>>)

RECURSIVE TrackLoop(_, _, _, _, _, _, _, _, _)
\* Step 3 with a track scanned again after it accepted a candidate.
TrackLoopRescan(tracks, k, t, contours, assigned, cache, p, regdata, e) ==
    IF k > Len(tracks) THEN [tracks |-> tracks, assigned |-> assigned, cache |-> cache]
    ELSE LET r == DtScan([f \in DOMAIN tracks[k].hist \ {t} |-> tracks[k].hist[f]],
                         1, t, contours, assigned, cache, p, regdata, e)
         IN IF r.hit = 0 \/ assigned[r.hit]
            THEN TrackLoop(tracks, k + 1, t, contours, assigned, r.cache, p, regdata, e)
            ELSE TrackLoop(
                   [tracks EXCEPT ![k].hist = AppendAt(@, t, contours[r.hit])],
                   k, t, contours, [assigned EXCEPT ![r.hit] = TRUE], r.cache,
                   p, regdata, e)

\* Step 3, the loop over the existing tracks from index k on.
TrackLoop(tracks, k, t, contours, assigned, cache, p, regdata, e) ==
    IF k > Len(tracks) THEN [tracks |-> tracks, assigned |-> assigned, cache |-> cache]
    ELSE LET r == DtScan(tracks[k].hist, 1, t, contours, assigned, cache, p, regdata, e)
         IN IF r.hit = 0
            THEN TrackLoop(tracks, k + 1, t, contours, assigned, r.cache, p, regdata, e)
            ELSE TrackLoop(
                   [tracks EXCEPT ![k].hist = AppendAt(@, t, contours[r.hit])],
                   k + 1, t, contours, [assigned EXCEPT ![r.hit] = TRUE], r.cache,
                   p, regdata, e)

RECURSIVE NewTracks(_, _, _, _, _, _)
\* Step 4 without `next_id += 1`: every new track of the frame gets the same id.
NewTracksSameId(tracks, next_id, t, contours, assigned, i) ==
    IF i > Len(contours) THEN [tracks |-> tracks, next_id |-> next_id]
    ELSE IF assigned[i] THEN NewTracks(tracks, next_id, t, contours, assigned, i + 1)
         ELSE NewTracks(Append(tracks, [id |-> next_id, hist |-> (t :> <<contours[i]>>)]),
                        next_id, t, contours, assigned, i + 1)

\* Step 4 without the test of `assigned`: a new track for every candidate.
NewTracksForAll(tracks, next_id, t, contours, assigned, i) ==
    IF i > Len(contours) THEN [tracks |-> tracks, next_id |-> next_id]
    ELSE NewTracks(Append(tracks, [id |-> next_id, hist |-> (t :> <<contours[i]>>)]),
                   next_id + 1, t, contours, assigned, i + 1)

\* Step 4: a new track {t: [c]} for every unassigned candidate from index i on.
NewTracks(tracks, next_id, t, contours, assigned, i) ==
    IF i > Len(contours) THEN [tracks |-> tracks, next_id |-> next_id]
    ELSE IF assigned[i] THEN NewTracks(tracks, next_id, t, contours, assigned, i + 1)
         ELSE NewTracks(Append(tracks, [id |-> next_id, hist |-> (t :> <<contours[i]>>)]),
                        next_id + 1, t, contours, assigned, i + 1)

\* The lifetime filter with a strict lower bound.
RECURSIVE filter_tracks_strict(_, _)
filter_tracks_strict(tracks, min_lifetime) ==
    IF min_lifetime <= 0 THEN tracks
    ELSE IF tracks = <<>> THEN <<>>
    ELSE IF min_lifetime < Cardinality(DOMAIN Head(tracks).hist)
         THEN <<Head(tracks)>> \o filter_tracks_strict(Tail(tracks), min_lifetime)
         ELSE filter_tracks_strict(Tail(tracks), min_lifetime)

\* filter_tracks_by_lifetime(tracks, min_lifetime), max_lifetime = inf
RECURSIVE filter_tracks_by_lifetime(_, _)
filter_tracks_by_lifetime(tracks, min_lifetime) ==
    IF min_lifetime <= 0 THEN tracks
    ELSE IF tracks = <<>> THEN <<>>
    ELSE IF min_lifetime <= Cardinality(DOMAIN Head(tracks).hist)
         THEN <<Head(tracks)>> \o filter_tracks_by_lifetime(Tail(tracks), min_lifetime)
         ELSE filter_tracks_by_lifetime(Tail(tracks), min_lifetime)

\* The relabeling without the sort: ids by iteration order.
relabel_unsorted(tracks) ==
    [new \in DOMAIN tracks |-> [id |-> new - 1, hist |-> tracks[new].hist]]

\* The relabeling with an unstable sort: tracks of equal lifetime come out in the
\* reverse of their iteration order.
relabel_ties_reversed(tracks) ==
    LET n == Len(tracks)
        keyed == [i \in DOMAIN tracks |->
                    <<Cardinality(DOMAIN tracks[n + 1 - i].hist), tracks[n + 1 - i]>>]
        sorted_items == SortDesc(keyed, n)
    IN [new \in DOMAIN tracks |-> [id |-> new - 1, hist |-> sorted_items[new][2].hist]]

\* relabel_tracks_by_lifetime(tracks)
relabel_tracks_by_lifetime(tracks) ==
    LET keyed == [i \in DOMAIN tracks |->
                    <<Cardinality(DOMAIN tracks[i].hist), tracks[i]>>]
        sorted_items == SortDesc(keyed, Len(tracks))
    IN [new \in DOMAIN tracks |-> [id |-> new - 1, hist |-> sorted_items[new][2].hist]]

\* ---------------------------------------------------------- containment
\* The ratio without the guard on an empty mask_small.
containment_ratio_unguarded(mask_small, mask_large) ==
    <<Cardinality(mask_small \cap mask_large), Cardinality(mask_small)>>

\* containment_ratio(mask_small, mask_large) as the fraction <<numerator, denominator>>.
containment_ratio(mask_small, mask_large) ==
    LET intersection == Cardinality(mask_small \cap mask_large)
        area_small == Cardinality(mask_small)
    IN IF area_small > 0 THEN <<intersection, area_small>> ELSE <<0, 1>>

\* ratio >= min_containment, both fractions with positive denominators.
FracGeq(ratio, min_containment) ==
    ratio[1] * min_containment[2] >= min_containment[1] * ratio[2]

\* ------------------------------------------------- nested-track resolver
\* The pair test without the choice of the smaller mask: mask2 is always taken
\* as the candidate.
PairFlagsNoSize(mask1, mask2, min_containment) ==
    IF FracGeq(containment_ratio(mask2, mask1), min_containment) THEN {2} ELSE {}

\* The body of the mask-pair loop: which of the two tracks the pair flags (1 for
\* id1, 2 for id2). The smaller mask is the candidate; on equal areas it is mask2.
PairFlags(mask1, mask2, min_containment) ==
    LET area1 == Cardinality(mask1)
        area2 == Cardinality(mask2)
    IN IF area1 < area2
       THEN IF FracGeq(containment_ratio(mask1, mask2), min_containment) THEN {1} ELSE {}
       ELSE IF FracGeq(containment_ratio(mask2, mask1), min_containment) THEN {2} ELSE {}

all_frames(tracks) == UNION {DOMAIN tracks[k].hist : k \in DOMAIN tracks}

\* masks[tid] at a frame: one mask per contour of the track's entry.
MasksAt(tracks, k, frame) ==
    [a \in DOMAIN tracks[k].hist[frame] |-> contours_to_mask(tracks[k].hist[frame][a])]

\* find_nested_tracks(tracks, image_shapes, min_containment): the set of
\* (track_id, frame) pairs to remove. Tracks are visited in iteration order: i
\* before j.
find_nested_tracks(tracks, min_containment) ==
    {e \in {<<tracks[k].id, f>> : k \in DOMAIN tracks, f \in all_frames(tracks)} :
        \E i, j \in DOMAIN tracks :
            /\ i < j
            /\ e[2] \in DOMAIN tracks[i].hist
            /\ e[2] \in DOMAIN tracks[j].hist
            /\ \E a \in DOMAIN tracks[i].hist[e[2]], b \in DOMAIN tracks[j].hist[e[2]] :
                 LET mask1 == MasksAt(tracks, i, e[2])[a]
                     mask2 == MasksAt(tracks, j, e[2])[b]
                 IN \/ e[1] = tracks[i].id /\ 1 \in PairFlags(mask1, mask2, min_containment)
                    \/ e[1] = tracks[j].id /\ 2 \in PairFlags(mask1, mask2, min_containment)}

\* The items of s at the indices in keep, in order.
RECURSIVE KeepIdx(_, _, _)
KeepIdx(s, i, keep) ==
    IF i > Len(s) THEN <<>>
    ELSE IF i \in keep THEN <<s[i]>> \o KeepIdx(s, i + 1, keep)
         ELSE KeepIdx(s, i + 1, keep)

\* The removal that leaves a track emptied by it in place.
remove_track_frames_keep_empty(tracks, to_remove) ==
    [k \in DOMAIN tracks |->
        [tracks[k] EXCEPT !.hist =
            [f \in {g \in DOMAIN tracks[k].hist : <<tracks[k].id, g>> \notin to_remove}
                |-> tracks[k].hist[f]]]]

\* remove_track_frames(tracks, to_remove): the flagged entries are deleted from a
\* copy; a track is deleted when a deletion pass on it leaves it empty.
remove_track_frames(tracks, to_remove) ==
    LET cut == [k \in DOMAIN tracks |->
                  [tracks[k] EXCEPT !.hist =
                      [f \in {g \in DOMAIN tracks[k].hist : <<tracks[k].id, g>> \notin to_remove}
                          |-> tracks[k].hist[f]]]]
        kept == {k \in DOMAIN tracks :
                    \/ DOMAIN cut[k].hist # {}
                    \/ ~\E e \in to_remove : e[1] = tracks[k].id}
    IN KeepIdx(cut, 1, kept)

\* cleanup_nested_tracks(tracks, to_remove)
cleanup_nested_tracks(tracks, to_remove) ==
    relabel_tracks_by_lifetime(remove_track_frames(tracks, to_remove))

\* remove_nested_tracks(tracks, image_shapes, min_containment)
remove_nested_tracks(tracks, min_containment) ==
    cleanup_nested_tracks(tracks, find_nested_tracks(tracks, min_containment))

\* ------------------------------------------------------ orientation filter
is_ccw(c) == contour_signed_area(c) > 0

\* kept = [c for c in contours if is_ccw(c)]
RECURSIVE KeepCcw(_)
KeepCcw(contours) ==
    IF contours = <<>> THEN <<>>
    ELSE IF is_ccw(Head(contours)) THEN <<Head(contours)>> \o KeepCcw(Tail(contours))
         ELSE KeepCcw(Tail(contours))

\* remove_clockwise_contours(tracks)
remove_clockwise_contours(tracks) ==
    LET new_frames(k) ==
            [t \in {u \in DOMAIN tracks[k].hist : KeepCcw(tracks[k].hist[u]) # <<>>}
                |-> KeepCcw(tracks[k].hist[t])]
        cleaned == [k \in DOMAIN tracks |-> [tracks[k] EXCEPT !.hist = new_frames(k)]]
    IN KeepIdx(cleaned, 1, {k \in DOMAIN tracks : DOMAIN new_frames(k) # {}})

\* ------------------------------------------------- track_contours, as steps
Runs == {1, 2}

\* min_frames is read by step 5 alone: its value is drawn there.
Params == [min_area : 1 .. MaxMinArea, max_gap : 0 .. MaxGap, registration : BOOLEAN]

\* The state of a call of track_contours before its first frame.
Start(p) == [pc |-> "loop", p |-> p, min_frames |-> 0, images |-> <<>>, contours |-> <<>>,
             tracks |-> <<>>, next_id |-> 0, registration_cache |-> <<>>,
             registered |-> <<>>,
             result |-> <<>>, oriented |-> <<>>, outer_tracks_filtered |-> <<>>]

Idle == [pc |-> "idle", p |-> [min_area |-> 1, max_gap |-> 0, registration |-> FALSE],
         min_frames |-> 0, images |-> <<>>, contours |-> <<>>, tracks |-> <<>>, next_id |-> 0,
         registration_cache |-> <<>>, registered |-> <<>>, result |-> <<>>,
         oriented |-> <<>>,
         outer_tracks_filtered |-> <<>>]

\* The pairs (t - dt, t) frame t may register: the registration data is drawn for
\* these only.
RegDataOf(rs) ==
    [{dt \in 1 .. rs.p.max_gap : rs.p.registration /\ Len(rs.images) - dt >= 0}
        -> PairData]

\* One iteration of the frame loop on the image whose contours are `found`.
FrameStep(rs, found, regdata, e) ==
    LET t == Len(rs.images)
        contours == sorted_by_area(filter_contours_by_area(found, rs.p.min_area))
        assigned == [i \in DOMAIN contours |-> FALSE]
        matched == TrackLoop(rs.tracks, 1, t, contours, assigned,
                             [store |-> rs.registration_cache, calls |-> rs.registered],
                             rs.p, regdata, e)
        created == NewTracks(matched.tracks, rs.next_id, t, contours,
                             matched.assigned, 1)
    IN [rs EXCEPT !.images = Append(@, found),
                  !.contours = contours,
                  !.tracks = created.tracks,
                  !.next_id = created.next_id,
                  !.registration_cache = matched.cache.store,
                  !.registered = matched.cache.calls]

\* Step 5 and the return; track_and_merge_sunspots then filters the returned
\* tracks by orientation, relabels them and removes the nested ones.
Return(rs, min_frames) ==
    LET outer_tracks == relabel_tracks_by_lifetime(
                            filter_tracks_by_lifetime(rs.tracks, min_frames))
        oriented == relabel_tracks_by_lifetime(remove_clockwise_contours(outer_tracks))
    IN [rs EXCEPT !.pc = "done",
                  !.min_frames = min_frames,
                  !.result = outer_tracks,
                  !.oriented = oriented,
                  !.outer_tracks_filtered = remove_nested_tracks(oriented, <<McNum, McDen>>)]

\* The runs in R (started on the same input) each process the next image.
ProcessFrame(R) ==
    /\ UNCHANGED <<post, cr, assoc, reg, pipe, fdf, nc, sel, rep>>
    /\ \A r \in R : run[r].pc = "loop" /\ Len(run[r].images) < MaxFrames
    /\ \E found \in ImageContours :
       \E regdata \in RegDataOf(run[CHOOSE r \in R : TRUE]) :
          run' = [r \in Runs |-> IF r \in R THEN FrameStep(run[r], found, regdata, r)
                                 ELSE run[r]]

\* find_contours, contour_area, contours_to_mask or compute_iou raises on the next
\* image: no statement of the frame loop is inside a try block, so the exception
\* leaves track_contours and the call returns nothing.
Raise(rs) == [rs EXCEPT !.pc = "raised"]

\* The runs in R each meet an image on which a step of the frame loop raises.
FrameRaises(R) ==
    /\ UNCHANGED <<post, cr, assoc, reg, pipe, fdf, nc, sel, rep>>
    /\ \A r \in R : run[r].pc = "loop" /\ Len(run[r].images) < MaxFrames
    /\ run' = [r \in Runs |-> IF r \in R THEN Raise(run[r]) ELSE run[r]]

\* The image sequence is exhausted: the runs in R return.
Finish(R) ==
    /\ UNCHANGED <<post, cr, assoc, reg, pipe, fdf, nc, sel, rep>>
    /\ \A r \in R : run[r].pc = "loop"
    /\ \E min_frames \in 0 .. MaxMinFrames :
          run' = [r \in Runs |-> IF r \in R THEN Return(run[r], min_frames) ELSE run[r]]

\* ------------------------------------- operations on a Tracks structure
PostShapes == {Ctr(0, 2, TRUE), Ctr(1, GridW, TRUE), Ctr(2, GridW, FALSE)}

Rank(c) == c.lo * (GridW + 1) + c.hi

\* The contour lists of one (track, frame) entry: non-empty, without repetition.
PostEntries ==
    {s \in UNION {[1 .. n -> PostShapes] : n \in 1 .. MaxPerFrame} :
        \A i, j \in DOMAIN s : i < j => Rank(s[i]) < Rank(s[j])}

\* The frame mappings of one track: at least one frame.
PostHists ==
    UNION {[F -> PostEntries] : F \in (SUBSET (0 .. (MaxPostFrames - 1))) \ {{}}}

\* The Tracks structures given to the operations.
PostTracks ==
    UNION {{[k \in 1 .. n |-> [id |-> k - 1, hist |-> h[k]]] : h \in [1 .. n -> PostHists]}
             : n \in 0 .. MaxTracks}

\* The contours given to the orientation filter: a counter-clockwise one, a
\* clockwise one and a degenerate one, whose signed area is 0.
OrientShapes == {Ctr(0, 2, TRUE), Ctr(2, GridW, FALSE), Ctr(1, 1, TRUE)}

OrientEntries ==
    {s \in UNION {[1 .. n -> OrientShapes] : n \in 1 .. MaxPerFrame} :
        \A i, j \in DOMAIN s : i # j => s[i] # s[j]}

OrientHists ==
    UNION {[F -> OrientEntries] : F \in (SUBSET (0 .. (MaxPostFrames - 1))) \ {{}}}

\* The Tracks structures given to remove_clockwise_contours.
OrientTracks ==
    UNION {{[k \in 1 .. n |-> [id |-> k - 1, hist |-> h[k]]] : h \in [1 .. n -> OrientHists]}
             : n \in 0 .. MaxTracks}

\* min_containment: 0, 1/2 and the default 0.8.
Containments == {<<0, 1>>, <<1, 2>>, <<McNum, McDen>>}

PostIdle == [pc |-> "idle", min_containment |-> <<McNum, McDen>>, op |-> "none",
             prev_op |-> "none", steps |-> 0,
             prev |-> <<>>, to_remove |-> {}, cur |-> <<>>]

PostStart(T, mc) == [PostIdle EXCEPT !.pc = "ready", !.min_containment = mc, !.cur = T]

\* tracks = remove_nested_tracks(tracks, image_shapes, min_containment)
RemoveNested ==
    /\ post.pc = "ready" /\ post.steps < MaxOps
    /\ post' = [post EXCEPT !.op = "remove_nested_tracks", !.prev_op = post.op,
                            !.steps = @ + 1,
                            !.prev = post.cur,
                            !.to_remove = find_nested_tracks(post.cur, post.min_containment),
                            !.cur = remove_nested_tracks(post.cur, post.min_containment)]
    /\ UNCHANGED <<run, cr, assoc, reg, pipe, fdf, nc, sel, rep>>

\* tracks = remove_clockwise_contours(tracks)
RemoveClockwise ==
    /\ post.pc = "ready" /\ post.steps < MaxOps
    /\ post' = [post EXCEPT !.op = "remove_clockwise_contours", !.prev_op = post.op,
                            !.steps = @ + 1,
                            !.prev = post.cur, !.to_remove = {},
                            !.cur = remove_clockwise_contours(post.cur)]
    /\ UNCHANGED <<run, cr, assoc, reg, pipe, fdf, nc, sel, rep>>

\* tracks = relabel_tracks_by_lifetime(tracks)
Relabel ==
    /\ post.pc = "ready" /\ post.steps < MaxOps
    /\ post' = [post EXCEPT !.op = "relabel_tracks_by_lifetime", !.prev_op = post.op,
                            !.steps = @ + 1,
                            !.prev = post.cur, !.to_remove = {},
                            !.cur = relabel_tracks_by_lifetime(post.cur)]
    /\ UNCHANGED <<run, cr, assoc, reg, pipe, fdf, nc, sel, rep>>

\* ------------------------------------------------ containment_ratio, a call
CrIdle == [pc |-> "idle", mask_small |-> {}, mask_large |-> {}, ratio |-> <<0, 1>>]

\* return intersection / area_small if area_small > 0.0 else 0.0
ComputeRatio ==
    /\ cr.pc = "call"
    /\ cr' = [cr EXCEPT !.pc = "returned",
                        !.ratio = containment_ratio(cr.mask_small, cr.mask_large)]
    /\ UNCHANGED <<run, post, assoc, reg, pipe, fdf, nc, sel, rep>>

\* ------------------------------------------------ inner/outer association
RECURSIVE AppendIfContained(_, _, _, _, _)
\* The loop over the outer contours without the break after a match.
AppendEachContained(list, inner_contour, outer_contours, j, min_containment) ==
    IF j > Len(outer_contours) THEN list
    ELSE IF FracGeq(containment_ratio(contours_to_mask(inner_contour),
                                      contours_to_mask(outer_contours[j])),
                    min_containment)
         THEN AppendIfContained(Append(list, inner_contour), inner_contour,
                                outer_contours, j + 1, min_containment)
         ELSE AppendIfContained(list, inner_contour, outer_contours, j + 1, min_containment)

\* The loop over the outer contours of a frame for one inner contour: the list
\* with the inner contour appended at the first outer contour containing it.
AppendIfContained(list, inner_contour, outer_contours, j, min_containment) ==
    IF j > Len(outer_contours) THEN list
    ELSE IF FracGeq(containment_ratio(contours_to_mask(inner_contour),
                                      contours_to_mask(outer_contours[j])),
                    min_containment)
         THEN Append(list, inner_contour)
         ELSE AppendIfContained(list, inner_contour, outer_contours, j + 1, min_containment)

\* The loop over the contours of one inner track's frame, from index a on.
RECURSIVE InnerContourLoop(_, _, _, _, _)
InnerContourLoop(list, inner_contours, a, outer_contours, min_containment) ==
    IF a > Len(inner_contours) THEN list
    ELSE InnerContourLoop(
            AppendIfContained(list, inner_contours[a], outer_contours, 1, min_containment),
            inner_contours, a + 1, outer_contours, min_containment)

\* The loop over the inner tracks at frame t, from index l on.
RECURSIVE InnerTrackLoop(_, _, _, _, _, _)
InnerTrackLoop(list, inner_tracks, l, t, outer_contours, min_containment) ==
    IF l > Len(inner_tracks) THEN list
    ELSE IF t \notin DOMAIN inner_tracks[l].hist
         THEN InnerTrackLoop(list, inner_tracks, l + 1, t, outer_contours, min_containment)
         ELSE InnerTrackLoop(
                InnerContourLoop(list, inner_tracks[l].hist[t], 1, outer_contours,
                                 min_containment),
                inner_tracks, l + 1, t, outer_contours, min_containment)

\* The association with the append made to the entry's "outer" list, which is
\* the outer track's own list.
associate_appending_to_outer(outer_tracks, inner_tracks, min_containment) ==
    [k \in DOMAIN outer_tracks |->
        LET outer_data == outer_tracks[k].hist
            found(t) == InnerTrackLoop(<<>>, inner_tracks, 1, t, outer_data[t],
                                       min_containment)
        IN [id |-> outer_tracks[k].id,
            outer |-> [t \in DOMAIN outer_data |-> outer_data[t] \o found(t)],
            inner |-> <<>>]]

\* associate_inner_outer_tracks: one entry per outer track; "inner" has a key
\* only for the frames something was appended at (a defaultdict of lists).
associate_inner_outer_tracks(outer_tracks, inner_tracks, min_containment) ==
    [k \in DOMAIN outer_tracks |->
        LET outer_data == outer_tracks[k].hist
            found(t) == InnerTrackLoop(<<>>, inner_tracks, 1, t, outer_data[t],
                                       min_containment)
        IN [id |-> outer_tracks[k].id,
            outer |-> outer_data,
            inner |-> [t \in {u \in DOMAIN outer_data : found(u) # <<>>} |-> found(t)]]]

\* The number of contours in a Tracks structure.
RECURSIVE SumLen(_, _)
SumLen(hist, F) ==
    IF F = {} THEN 0
    ELSE LET f == CHOOSE g \in F : TRUE
         IN Len(hist[f]) + SumLen(hist, F \ {f})

RECURSIVE ContourCount(_)
ContourCount(T) ==
    IF T = <<>> THEN 0
    ELSE SumLen(Head(T).hist, DOMAIN Head(T).hist) + ContourCount(Tail(T))

\* The Tracks structures given to the association.
AssocTracks == {T \in PostTracks : ContourCount(T) <= MaxAssocContours}

AssocIdle == [pc |-> "idle", min_containment |-> <<McNum, McDen>>, outer_tracks |-> <<>>,
              inner_tracks |-> <<>>, merged |-> <<>>]

\* outer_tracks after the call: merged[outer_id]["outer"] is outer_data itself,
\* not a copy, so each outer track's frames are what the entry's "outer" holds.
OuterAfter(outer_tracks, merged) ==
    [k \in DOMAIN outer_tracks |-> [id |-> outer_tracks[k].id, hist |-> merged[k].outer]]

Associate ==
    /\ assoc.pc = "call"
    /\ LET merged == associate_inner_outer_tracks(assoc.outer_tracks, assoc.inner_tracks,
                                                  assoc.min_containment)
       IN assoc' = [assoc EXCEPT !.pc = "returned",
                                 !.merged = merged,
                                 !.outer_tracks = OuterAfter(assoc.outer_tracks, merged)]
    /\ UNCHANGED <<run, post, cr, reg, pipe, fdf, nc, sel, rep>>

\* --------------------------------- track_and_merge_sunspots, after tracking
\* The dicts of a call, by identity: tops[ref] is a Tracks dict, its items the
\* pairs [id, h] where hists[h] is the track's own dict (frame -> contours).
Deref(H, ref) ==
    [k \in DOMAIN H.tops[ref] |->
        [id |-> H.tops[ref][k].id, hist |-> H.hists[H.tops[ref][k].h]]]

\* New dicts holding the Tracks value T: the heap with them and the new ref.
Store(H, T) ==
    [heap |-> [tops |-> Append(H.tops,
                               [k \in DOMAIN T |-> [id |-> T[k].id, h |-> Len(H.hists) + k]]),
               hists |-> H.hists \o [k \in DOMAIN T |-> T[k].hist]],
     ref |-> Len(H.tops) + 1]

\* The orientation filter writing into the dicts it was given.
RemoveClockwiseInPlace(H, tracks) ==
    LET top == H.tops[tracks]
        kept(h) == [t \in {u \in DOMAIN H.hists[h] : KeepCcw(H.hists[h][u]) # <<>>}
                      |-> KeepCcw(H.hists[h][t])]
        touched == {top[k].h : k \in DOMAIN top}
    IN [heap |-> [tops |-> [H.tops EXCEPT ![tracks] =
                              KeepIdx(top, 1, {k \in DOMAIN top : DOMAIN kept(top[k].h) # {}})],
                  hists |-> [h \in DOMAIN H.hists |->
                               IF h \in touched THEN kept(h) ELSE H.hists[h]]],
        ref |-> tracks]

\* remove_clockwise_contours on the dict `tracks`: the result is built in the
\* new dicts `cleaned` and `new_frames`, with new lists `kept`.
RemoveClockwiseDicts(H, tracks) == Store(H, remove_clockwise_contours(Deref(H, tracks)))

\* relabel_tracks_by_lifetime on the dict `tracks`: a new dict whose values are
\* the track dicts of `tracks` themselves.
RelabelDicts(H, tracks) ==
    LET top == H.tops[tracks]
        keyed == [i \in DOMAIN top |-> <<Cardinality(DOMAIN H.hists[top[i].h]), top[i]>>]
        sorted_items == SortDesc(keyed, Len(top))
    IN [heap |-> [H EXCEPT !.tops =
                     Append(@, [new \in DOMAIN top |->
                                   [id |-> new - 1, h |-> sorted_items[new][2].h]])],
        ref |-> Len(H.tops) + 1]

\* remove_track_frames on the dict `tracks`: cleaned = deepcopy(tracks), and the
\* deletions are made in the copy.
RemoveTrackFramesDicts(H, tracks, to_remove) ==
    Store(H, remove_track_frames(Deref(H, tracks), to_remove))

\* remove_nested_tracks on the dict `tracks`.
RemoveNestedDicts(H, tracks, min_containment) ==
    LET to_remove == find_nested_tracks(Deref(H, tracks), min_containment)
        cleaned == RemoveTrackFramesDicts(H, tracks, to_remove)
    IN RelabelDicts(cleaned.heap, cleaned.ref)

\* associate_inner_outer_tracks on dicts: each entry's "outer" is the outer
\* track's own dict h; nothing is written to the dicts given.
AssociateDicts(H, outer_tracks, inner_tracks, min_containment) ==
    LET merged == associate_inner_outer_tracks(Deref(H, outer_tracks),
                                               Deref(H, inner_tracks), min_containment)
    IN [k \in DOMAIN merged |->
           [id |-> merged[k].id, h |-> H.tops[outer_tracks][k].h, inner |-> merged[k].inner]]

\* A Sunspots structure as read through its dicts.
SunspotsOf(H, merged) ==
    [k \in DOMAIN merged |->
        [id |-> merged[k].id, outer |-> H.hists[merged[k].h], inner |-> merged[k].inner]]

\* What track_contours returns: dense ids, lifetimes descending, one contour per
\* frame of a track, and no contour of a frame in two tracks.
MatcherTracks ==
    {T \in PostTracks :
        /\ \A k \in DOMAIN T : \A f \in DOMAIN T[k].hist : Len(T[k].hist[f]) = 1
        /\ \A k, l \in DOMAIN T :
              k < l => /\ Cardinality(DOMAIN T[k].hist) >= Cardinality(DOMAIN T[l].hist)
                       /\ \A f \in DOMAIN T[k].hist \cap DOMAIN T[l].hist :
                             T[k].hist[f] # T[l].hist[f]}

\* The inner and middle tracks given to the call: at most one contour.
SmallMatcherTracks == {T \in MatcherTracks : ContourCount(T) <= MaxInnerContours}

PipeIdle ==
    [pc |-> "idle", min_containment |-> <<McNum, McDen>>,
     heap |-> [tops |-> <<>>, hists |-> <<>>],
     matched |-> [outer |-> <<>>, inner |-> <<>>, middle |-> <<>>],
     outer_tracks |-> 0, inner_tracks |-> 0, middle_tracks |-> 0,
     outer_tracks_filtered |-> 0, sunspots |-> <<>>, pores |-> <<>>,
     result |-> [sunspots |-> <<>>, pores |-> <<>>, outer_tracks |-> <<>>,
                 outer_tracks_filtered |-> <<>>, middle_tracks |-> <<>>,
                 inner_tracks |-> <<>>]]

\* The call after its three runs of track_contours returned outer, inner, middle.
PipeStart(outer, inner, middle, min_containment) ==
    LET o == Store(PipeIdle.heap, outer)
        i == Store(o.heap, inner)
        m == Store(i.heap, middle)
    IN [PipeIdle EXCEPT !.pc = "tracked", !.min_containment = min_containment,
                        !.heap = m.heap,
                        !.matched = [outer |-> outer, inner |-> inner, middle |-> middle],
                        !.outer_tracks = o.ref, !.inner_tracks = i.ref,
                        !.middle_tracks = m.ref]

\* outer_tracks_filtered = relabel_tracks_by_lifetime(remove_clockwise_contours(outer_tracks))
FilterOrientation ==
    /\ pipe.pc = "tracked"
    /\ LET cleaned == RemoveClockwiseDicts(pipe.heap, pipe.outer_tracks)
           relabelled == RelabelDicts(cleaned.heap, cleaned.ref)
       IN pipe' = [pipe EXCEPT !.pc = "oriented", !.heap = relabelled.heap,
                               !.outer_tracks_filtered = relabelled.ref]
    /\ UNCHANGED <<run, post, cr, assoc, reg, fdf, nc, sel, rep>>

\* outer_tracks_filtered = remove_nested_tracks(outer_tracks_filtered, ...)
RemoveNestedPenumbrae ==
    /\ pipe.pc = "oriented"
    /\ LET r == RemoveNestedDicts(pipe.heap, pipe.outer_tracks_filtered,
                                  pipe.min_containment)
       IN pipe' = [pipe EXCEPT !.pc = "resolved", !.heap = r.heap,
                               !.outer_tracks_filtered = r.ref]
    /\ UNCHANGED <<run, post, cr, assoc, reg, fdf, nc, sel, rep>>

\* sunspots = associate_inner_outer_tracks(outer_tracks_filtered, inner_tracks, ...)
AssociateUmbrae ==
    /\ pipe.pc = "resolved"
    /\ pipe' = [pipe EXCEPT !.pc = "sunspots",
                            !.sunspots = AssociateDicts(pipe.heap, pipe.outer_tracks_filtered,
                                                        pipe.inner_tracks,
                                                        pipe.min_containment)]
    /\ UNCHANGED <<run, post, cr, assoc, reg, fdf, nc, sel, rep>>

\* pores = associate_inner_outer_tracks(outer_tracks_filtered, middle_tracks, ...)
AssociatePores ==
    /\ pipe.pc = "sunspots"
    /\ pipe' = [pipe EXCEPT !.pc = "pores",
                            !.pores = AssociateDicts(pipe.heap, pipe.outer_tracks_filtered,
                                                     pipe.middle_tracks,
                                                     pipe.min_containment)]
    /\ UNCHANGED <<run, post, cr, assoc, reg, fdf, nc, sel, rep>>

\* The returned dictionary, read through the dicts as they are at the return.
ReturnDict ==
    /\ pipe.pc = "pores"
    /\ pipe' = [pipe EXCEPT !.pc = "returned",
                  !.result = [sunspots |-> SunspotsOf(pipe.heap, pipe.sunspots),
                              pores |-> SunspotsOf(pipe.heap, pipe.pores),
                              outer_tracks |-> Deref(pipe.heap, pipe.outer_tracks),
                              outer_tracks_filtered |->
                                  Deref(pipe.heap, pipe.outer_tracks_filtered),
                              middle_tracks |-> Deref(pipe.heap, pipe.middle_tracks),
                              inner_tracks |-> Deref(pipe.heap, pipe.inner_tracks)]]
    /\ UNCHANGED <<run, post, cr, assoc, reg, fdf, nc, sel, rep>>

\* ------------------------------------------- filter_combined_df, by steps
\* The rows of the DataFrame and the group (observation_id, sunspot_id) of each.
Rows == 1 .. MaxRows

GroupOf(row) == (row + 1) \div 2

\* The modes _apply_filter knows, and one it does not.
Modes == {"frame-wise", "any", "all"}

FilterModes == Modes \cup {"each"}

\* One filter of filtering_kwargs: whether its column is in the DataFrame, its
\* mode, and the rows whose cell satisfies its bounds.
FilterSpecs == [present : BOOLEAN, mode : FilterModes, satisfied : SUBSET Rows]

\* _apply_filter on the rows df, after the column lookup (df[column], or the
\* test `col not in df.columns` of a structured filter): the row mask is
\* computed first, the mode is looked at afterwards.
apply_filter(df, spec) ==
    IF ~spec.present THEN [exc |-> "KeyError", evaluated |-> FALSE, df |-> df]
    ELSE LET row_mask == df \cap spec.satisfied
             group_any == {GroupOf(r) : r \in row_mask}
             group_all == {GroupOf(r) : r \in df} \ {GroupOf(r) : r \in df \ row_mask}
         IN IF spec.mode = "frame-wise"
            THEN [exc |-> "none", evaluated |-> TRUE, df |-> row_mask]
            ELSE IF spec.mode = "any"
            THEN [exc |-> "none", evaluated |-> TRUE,
                  df |-> {r \in df : GroupOf(r) \in group_any}]
            ELSE IF spec.mode = "all"
            THEN [exc |-> "none", evaluated |-> TRUE,
                  df |-> {r \in df : GroupOf(r) \in group_all}]
            ELSE [exc |-> "ValueError", evaluated |-> TRUE, df |-> df]

FdfIdle == [pc |-> "idle", filtering_kwargs |-> <<>>, next |-> 1, df |-> {},
            evaluated |-> 0, applied |-> 0, exc |-> "none"]

FdfStart(filtering_kwargs) ==
    [FdfIdle EXCEPT !.pc = "loop", !.filtering_kwargs = filtering_kwargs, !.df = Rows]

\* One turn of the loop over filtering_kwargs.items().
ApplyNextFilter ==
    /\ fdf.pc = "loop" /\ fdf.next <= Len(fdf.filtering_kwargs)
    /\ LET r == apply_filter(fdf.df, fdf.filtering_kwargs[fdf.next])
       IN fdf' = IF r.exc # "none"
                 THEN [fdf EXCEPT !.pc = "raised", !.exc = r.exc,
                                  !.evaluated = @ + (IF r.evaluated THEN 1 ELSE 0)]
                 ELSE [fdf EXCEPT !.next = @ + 1, !.df = r.df,
                                  !.evaluated = @ + 1, !.applied = @ + 1]
    /\ UNCHANGED <<run, post, cr, assoc, reg, pipe, nc, sel, rep>>

\* return df
ReturnFiltered ==
    /\ fdf.pc = "loop" /\ fdf.next > Len(fdf.filtering_kwargs)
    /\ fdf' = [fdf EXCEPT !.pc = "returned"]
    /\ UNCHANGED <<run, post, cr, assoc, reg, pipe, nc, sel, rep>>

\* ------------------------------------------------------------ nested_cast
\* A nested value: [kind, kids, n]. kids maps the keys of a mapping or the
\* indices of a sequence to values; n is the shape of an array.
Node(kind, kids, n) == [kind |-> kind, kids |-> kids, n |-> n]

Scalars == {Node(k, <<>>, 0) : k \in {"None", "int", "float"}}

Arrays == {Node("ndarray", <<>>, n) : n \in 1 .. 2}

Mappings == {"defaultdict", "dict"}

\* The containers whose items are drawn from Items: mappings over the keys
\* 1..MaxWidth and lists of up to width items.
Containers(Items, width) ==
    UNION {{Node(kind, kids, 0) : kids \in [K -> Items], kind \in Mappings}
              : K \in SUBSET (1 .. width)}
    \cup UNION {{Node("list", kids, 0) : kids \in [1 .. n -> Items]} : n \in 0 .. width}

Flat == Scalars \cup Arrays \cup Containers(Scalars \cup Arrays, MaxWidth)

\* The values given to nested_cast: nested two levels deep.
Nested2 == Flat \cup Containers(Flat, 1)

Raised(exc) == [ok |-> FALSE, exc |-> exc, val |-> Node("None", <<>>, 0)]

Returned(val) == [ok |-> TRUE, exc |-> "none", val |-> val]

\* The key test that lets y hold keys x lacks.
KeysCovered(x, y) == DOMAIN x.kids \subseteq DOMAIN y.kids

\* set(x) != set(y), negated
KeysMatch(x, y) == DOMAIN x.kids = DOMAIN y.kids

\* _cast(x, y, path): the value returned or the exception raised.
RECURSIVE cast(_, _)
cast(x, y) ==
    LET items == [k \in DOMAIN x.kids |-> cast(x.kids[k], y.kids[k])]
        failed == {k \in DOMAIN x.kids : ~items[k].ok}
        first == CHOOSE k \in failed : \A l \in failed : k <= l
        built(kind) == IF failed # {} THEN Raised(items[first].exc)
                       ELSE Returned(Node(kind, [k \in DOMAIN x.kids |-> items[k].val], 0))
    IN IF x.kind = "ndarray"
       THEN IF y.kind # "ndarray" THEN Raised("TypeError")
            ELSE IF x.n # y.n THEN Raised("ValueError")
            ELSE Returned(y)
       ELSE IF x.kind \in Mappings
       THEN IF y.kind \notin Mappings THEN Raised("TypeError")
            ELSE IF ~KeysMatch(x, y) THEN Raised("ValueError")
            ELSE built(x.kind)
       ELSE IF x.kind = "list"
       THEN IF y.kind # "list" THEN Raised("TypeError")
            ELSE IF Len(x.kids) # Len(y.kids) THEN Raised("ValueError")
            ELSE built("list")
       ELSE IF x.kind = "None"
       THEN IF y.kind # "None" THEN Raised("TypeError") ELSE Returned(x)
       ELSE IF x.kind \in {"int", "float"} /\ y.kind \in {"int", "float"}
       THEN IF x.kind = "int" /\ y.kind = "float" THEN Raised("TypeError")
            ELSE Returned(Node(x.kind, <<>>, 0))
       ELSE IF x.kind # y.kind THEN Raised("TypeError")
       ELSE Returned(y)

NcIdle == [pc |-> "idle", a |-> Node("None", <<>>, 0), b |-> Node("None", <<>>, 0),
           exc |-> "none", result |-> Node("None", <<>>, 0)]

\* return _cast(a, b, "<root>")
NestedCast ==
    /\ nc.pc = "call"
    /\ LET r == cast(nc.a, nc.b)
       IN nc' = IF r.ok THEN [nc EXCEPT !.pc = "returned", !.result = r.val]
                ELSE [nc EXCEPT !.pc = "raised", !.exc = r.exc]
    /\ UNCHANGED <<run, post, cr, assoc, reg, pipe, fdf, sel, rep>>

\* ------------------------------------------ apply_standard_sunspot_filter
\* A dict key with its Python type: an int never equals a str.
Key(kind, v) == [kind |-> kind, v |-> v]

ObsIds == {Key("int", o) : o \in 1 .. MaxObs}

SpotIds == {Key("int", i) : i \in 0 .. (MaxSpots - 1)}

FrameIds == {Key("int", f) : f \in 0 .. (MaxSelFrames - 1)}

\* The region names "outer" and "inner".
Outer == Key("str", 1)

Inner == Key("str", 2)

\* One spot: {"outer": {frame: data}, "inner": {frame: data}} with the outer
\* frames fo and the inner frames fi; data names the contours it stands for.
SpotOf(spot_id, fo, fi) ==
    [region \in {Outer, Inner} |->
        [frame \in (IF region = Outer THEN fo ELSE fi) |-> <<spot_id.v, region.v, frame.v>>]]

\* sunspots: {obs_id: {spot_id: spot}} for the observations obs_ids; a spot has
\* an outer frame, and its inner frames are among its outer ones.
SunspotsByObs(obs_ids) ==
    LET frames == UNION {{<<fo, fi>> : fi \in SUBSET fo} : fo \in (SUBSET FrameIds) \ {{}}}
    IN [obs_ids -> UNION {{[i \in S |-> SpotOf(i, g[i][1], g[i][2])] : g \in [S -> frames]}
                           : S \in SUBSET SpotIds}]

\* The rows of filtered_df: (observation_id, sunspot_id, frame).
DfRows == ObsIds \X SpotIds \X FrameIds

\* frame_index: (obs, spot) -> set(frames)
frame_index(filtered_df) ==
    [key \in {<<row[1], row[2]>> : row \in filtered_df} |->
        {row[3] : row \in {q \in filtered_df : <<q[1], q[2]>> = key}}]

\* The assignments selected[obs_id][spot_id][region][frame] = data made for one
\* spot, as <<region, frame, data>>. The loop `for region, frames in
\* spots.items()` runs over the observation's spots, not over the regions of
\* `spot`: region is a spot id, frames a spot, frame a region name, data that
\* region's frames.
Assignments(spots, allowed_frames) ==
    {<<region, frame, spots[region][frame]>> :
        region \in DOMAIN spots, frame \in {Outer, Inner} \cap allowed_frames}

\* apply_standard_sunspot_filter after the column check: the dict `selected`.
apply_standard_sunspot_filter(sunspots, filtered_df) ==
    LET index == frame_index(filtered_df)
        made(obs_id, spot_id) ==
            IF <<obs_id, spot_id>> \notin DOMAIN index THEN {}
            ELSE Assignments(sunspots[obs_id], index[<<obs_id, spot_id>>])
        spot_ids(obs_id) == {i \in DOMAIN sunspots[obs_id] : made(obs_id, i) # {}}
    IN [obs_id \in {o \in DOMAIN sunspots : spot_ids(o) # {}} |->
          [spot_id \in spot_ids(obs_id) |->
             [region \in {w[1] : w \in made(obs_id, spot_id)} |->
                [frame \in {w[2] : w \in {x \in made(obs_id, spot_id) : x[1] = region}} |->
                   sunspots[obs_id][region][frame]]]]]

SelIdle == [pc |-> "idle", sunspots |-> <<>>, filtered_df |-> {}, columns |-> TRUE,
            selected |-> <<>>]

\* One call: KeyError when filtered_df lacks a required column, else `selected`.
SelectSunspots ==
    /\ sel.pc = "call"
    /\ sel' = IF ~sel.columns THEN [sel EXCEPT !.pc = "raised"]
              ELSE [sel EXCEPT !.pc = "returned",
                               !.selected = apply_standard_sunspot_filter(
                                                sel.sunspots, sel.filtered_df)]
    /\ UNCHANGED <<run, post, cr, assoc, reg, pipe, fdf, nc, rep>>

\* ------------------------------------------- select_representative_frames
\* The default `phases`, in order.
Phases == <<"forming", "stable", "decaying">>

\* df: the frames of one sunspot, each with its phase; "other" is a phase that
\* is not listed in `phases`.
Dfs == [0 .. (MaxRepFrames - 1) -> {Phases[i] : i \in 1 .. Len(Phases)} \cup {"other"}]

RECURSIVE AscendingFrom(_, _)
\* np.sort of a set of frame numbers, from frame f on.
AscendingFrom(S, f) ==
    IF f >= MaxRepFrames THEN <<>>
    ELSE (IF f \in S THEN <<f>> ELSE <<>>) \o AscendingFrom(S, f + 1)

RECURSIVE InsertAsc(_, _)
InsertAsc(s, x) ==
    IF s = <<>> THEN <<x>>
    ELSE IF x < Head(s) THEN <<x>> \o s
    ELSE <<Head(s)>> \o InsertAsc(Tail(s), x)

RECURSIVE sorted(_)
\* sorted(list) of frame numbers, ascending.
sorted(s) == IF s = <<>> THEN <<>> ELSE InsertAsc(sorted(Tail(s)), Head(s))

RECURSIVE Chain(_)
\* The concatenation of a sequence of lists.
Chain(ss) == IF ss = <<>> THEN <<>> ELSE Head(ss) \o Chain(Tail(ss))

\* np.round of num/den (den > 0, num >= 0): to the nearest integer, a half to
\* the even one.
np_round(num, den) ==
    LET q == num \div den
        r == num % den
    IN IF 2 * r < den THEN q
       ELSE IF 2 * r > den THEN q + 1
       ELSE IF q % 2 = 0 THEN q ELSE q + 1

\* _linspace_frames: n frames at the inner points of np.linspace(0, len - 1,
\* n + 2), or every frame when there are no more than n.
linspace_frames(frames, n) ==
    IF n <= 0 THEN <<>>
    ELSE IF Len(frames) <= n THEN frames
    ELSE [k \in 1 .. n |-> frames[np_round(k * (Len(frames) - 1), n + 1) + 1]]

\* frames_per_phase as the list of its items, in insertion order.
frames_per_phase(df) ==
    LET item(i) == [phase |-> Phases[i],
                    frames |-> AscendingFrom({f \in DOMAIN df : df[f] = Phases[i]}, 0)]
        keep(it) == Len(it.frames) > 0
    IN SelectSeq([i \in 1 .. Len(Phases) |-> item(i)], keep)

\* frames[len(frames) // 2]
MedianFrame(frames) == frames[(Len(frames) \div 2) + 1]

\* max(frames_per_phase, key=len): the first phase of maximal length.
LongestPhase(fpp) ==
    CHOOSE i \in 1 .. Len(fpp) :
        /\ \A j \in 1 .. Len(fpp) : Len(fpp[j].frames) <= Len(fpp[i].frames)
        /\ \A j \in 1 .. (i - 1) : Len(fpp[j].frames) < Len(fpp[i].frames)

select_representative_frames(df, n_frames) ==
    LET fpp == frames_per_phase(df)
        medians == [i \in 1 .. Len(fpp) |-> MedianFrame(fpp[i].frames)]
        missing == n_frames - Len(fpp)
        selected_by_phase ==
            [i \in 1 .. Len(fpp) |->
                IF missing > 0 /\ i = LongestPhase(fpp)
                THEN linspace_frames(fpp[i].frames, 1 + missing)
                ELSE <<medians[i]>>]
    IN IF fpp = <<>> THEN <<>>
       ELSE IF Len(fpp) >= n_frames THEN sorted(SubSeq(medians, 1, n_frames))
       ELSE sorted(Chain(selected_by_phase))

RepIdle == [pc |-> "idle", df |-> <<>>, n_frames |-> 0, result |-> <<>>]

\* One call of select_representative_frames.
SelectRepresentativeFrames ==
    /\ rep.pc = "call"
    /\ rep' = [rep EXCEPT !.pc = "returned",
                          !.result = select_representative_frames(rep.df, rep.n_frames)]
    /\ UNCHANGED <<run, post, cr, assoc, reg, pipe, fdf, nc, sel>>

\* ------------------------------------- register_images_pairwise, by steps
\* Thresholds are counted in quarters: 1.0 is 4, the step 0.25 is 1, 3.5 is 14.
ResidualStart == 4

ResidualStep == 1

ResidualMaxDefault == 14

\* The values of residual_threshold_max, from 0.75 (below the first threshold).
ResidualMaxes == 3 .. MaxResidualQ

\* The exceptions the tiers raise, all subclasses of Exception.
Exceptions == {"RuntimeError", "ValueError"}

isinstance(exc, cls) == cls = "Exception" \/ exc = cls

\* A handler for ValueError alone.
except_value_error(exc) == isinstance(exc, "ValueError")

\* "except Exception", the handler of both try blocks.
except_exception(exc) == isinstance(exc, "Exception")

\* What ORB, the matching and the distance filter give try_feature_registration.
FeatureOutcomes == {"orb_error", "no_features", "few_matches", "few_close", "ok"}

\* What one call of ransac returns: no model, a model with non-finite
\* parameters, or a finite model.
RansacOutcomes == {"none", "nonfinite", "finite"}

\* What phase_cross_correlation gives try_phase_correlation.
ShiftOutcomes == {"error", "nonfinite", "too_large", "ok"}

RegIdle ==
    [pc |-> "idle", residual_threshold_max |-> ResidualMaxDefault,
     residual_threshold |-> ResidualStart, trials |-> <<>>, exc |-> "none",
     warnings |-> <<>>, tier1 |-> "none", tier2 |-> "none", model |-> <<>>,
     shift |-> <<>>, returned_at |-> 0, result |-> <<>>]

RegStart(residual_threshold_max) ==
    [RegIdle EXCEPT !.pc = "tier1",
                    !.residual_threshold_max = residual_threshold_max]

\* try_feature_registration up to the consensus loop: the raises of the feature
\* extraction and of the match counts, else the first threshold.
try_feature_registration ==
    /\ reg.pc = "tier1"
    /\ \E found \in FeatureOutcomes :
          reg' = IF found = "ok"
                 THEN [reg EXCEPT !.pc = "ransac", !.tier1 = "tried",
                                  !.residual_threshold = ResidualStart]
                 ELSE [reg EXCEPT !.pc = "raised1", !.tier1 = "tried",
                                  !.exc = IF found = "orb_error" THEN "RuntimeError"
                                          ELSE "ValueError"]
    /\ UNCHANGED <<run, post, cr, assoc, pipe, fdf, nc, sel, rep>>

\* One turn of the consensus loop raising the threshold by 0.5 after a failure.
RansacTrialDoubleStep ==
    /\ reg.pc = "ransac"
    /\ reg.residual_threshold <= reg.residual_threshold_max
    /\ \E fit \in RansacOutcomes, model \in Transforms :
          reg' = IF fit = "finite"
                 THEN [reg EXCEPT !.pc = "returned", !.tier1 = "ok",
                                  !.trials = Append(@, reg.residual_threshold),
                                  !.model = <<model>>, !.returned_at = 1,
                                  !.result = <<model>>]
                 ELSE [reg EXCEPT !.trials = Append(@, reg.residual_threshold),
                                  !.residual_threshold = @ + 2 * ResidualStep]
    /\ UNCHANGED <<run, post, cr, assoc, pipe, fdf, nc, sel, rep>>

\* One turn of the consensus loop: return the model when it is finite, else
\* raise the threshold.
RansacTrial ==
    /\ reg.pc = "ransac"
    /\ reg.residual_threshold <= reg.residual_threshold_max
    /\ \E fit \in RansacOutcomes, model \in Transforms :
          reg' = IF fit = "finite"
                 THEN [reg EXCEPT !.pc = "returned", !.tier1 = "ok",
                                  !.trials = Append(@, reg.residual_threshold),
                                  !.model = <<model>>, !.returned_at = 1,
                                  !.result = <<model>>]
                 ELSE [reg EXCEPT !.trials = Append(@, reg.residual_threshold),
                                  !.residual_threshold = @ + ResidualStep]
    /\ UNCHANGED <<run, post, cr, assoc, pipe, fdf, nc, sel, rep>>

\* The exit of the consensus loop without a model.
RansacFailed ==
    /\ reg.pc = "ransac"
    /\ ~(reg.residual_threshold <= reg.residual_threshold_max)
    /\ reg' = [reg EXCEPT !.pc = "raised1", !.exc = "ValueError"]
    /\ UNCHANGED <<run, post, cr, assoc, pipe, fdf, nc, sel, rep>>

\* The handler of the first try block: warn and go on to phase correlation.
FallBackToPhaseCorrelation ==
    /\ reg.pc = "raised1"
    /\ reg' = IF except_exception(reg.exc)
              THEN [reg EXCEPT !.pc = "tier2", !.tier1 = "failed", !.exc = "none",
                               !.warnings = Append(@, "Feature registration failed")]
              ELSE [reg EXCEPT !.pc = "propagated", !.tier1 = "failed"]
    /\ UNCHANGED <<run, post, cr, assoc, pipe, fdf, nc, sel, rep>>

\* try_phase_correlation: the shift, or a raise on a failed correlation or on
\* a non-finite or too large shift.
try_phase_correlation ==
    /\ reg.pc = "tier2"
    /\ \E found \in ShiftOutcomes, shift \in Transforms :
          reg' = IF found = "ok"
                 THEN [reg EXCEPT !.pc = "returned", !.tier2 = "ok",
                                  !.shift = <<shift>>, !.returned_at = 2,
                                  !.result = <<shift>>]
                 ELSE [reg EXCEPT !.pc = "raised2", !.tier2 = "tried",
                                  !.exc = IF found = "error" THEN "RuntimeError"
                                          ELSE "ValueError"]
    /\ UNCHANGED <<run, post, cr, assoc, pipe, fdf, nc, sel, rep>>

\* The handler of the second try block: warn and return the identity.
FallBackToIdentity ==
    /\ reg.pc = "raised2"
    /\ reg' = IF except_exception(reg.exc)
              THEN [reg EXCEPT !.pc = "returned", !.tier2 = "failed", !.exc = "none",
                               !.warnings = Append(@, "Phase correlation also failed"),
                               !.returned_at = 3, !.result = <<Identity>>]
              ELSE [reg EXCEPT !.pc = "propagated", !.tier2 = "failed"]
    /\ UNCHANGED <<run, post, cr, assoc, pipe, fdf, nc, sel, rep>>

\* ---------------------------------------------------------- specifications
RunIdle == [r \in Runs |-> Idle]

\* One call of track_contours.
Init ==
    /\ \E p \in Params : run = [r \in Runs |-> IF r = 1 THEN Start(p) ELSE Idle]
    /\ post = PostIdle /\ cr = CrIdle /\ assoc = AssocIdle /\ reg = RegIdle
    /\ pipe = PipeIdle
    /\ fdf = FdfIdle
    /\ nc = NcIdle
    /\ sel = SelIdle
    /\ rep = RepIdle

Next == ProcessFrame({1}) \/ FrameRaises({1}) \/ Finish({1})

Spec == Init /\ [][Next]_vars

\* The resolver, the orientation filter and the relabeling on any Tracks.
InitPost ==
    /\ run = RunIdle
    /\ \E T \in PostTracks, mc \in Containments : post = PostStart(T, mc)
    /\ cr = CrIdle /\ assoc = AssocIdle /\ reg = RegIdle
    /\ pipe = PipeIdle
    /\ fdf = FdfIdle
    /\ nc = NcIdle
    /\ sel = SelIdle
    /\ rep = RepIdle

NextPost == RemoveNested \/ RemoveClockwise \/ Relabel

SpecPost == InitPost /\ [][NextPost]_vars

\* Two calls of track_contours on the same images with the same parameters.
InitDet ==
    /\ \E p \in Params : run = [r \in Runs |-> Start(p)]
    /\ post = PostIdle /\ cr = CrIdle /\ assoc = AssocIdle /\ reg = RegIdle
    /\ pipe = PipeIdle
    /\ fdf = FdfIdle
    /\ nc = NcIdle
    /\ sel = SelIdle
    /\ rep = RepIdle

NextDet == ProcessFrame(Runs) \/ FrameRaises(Runs) \/ Finish(Runs)

SpecDet == InitDet /\ [][NextDet]_vars

\* One call of containment_ratio on any two masks of the grid.
InitRatio ==
    /\ run = RunIdle /\ post = PostIdle /\ assoc = AssocIdle /\ reg = RegIdle
    /\ \E a \in SUBSET Pixels, b \in SUBSET Pixels :
          cr = [CrIdle EXCEPT !.pc = "call", !.mask_small = a, !.mask_large = b]
    /\ pipe = PipeIdle
    /\ fdf = FdfIdle
    /\ nc = NcIdle
    /\ sel = SelIdle
    /\ rep = RepIdle

NextRatio == ComputeRatio

SpecRatio == InitRatio /\ [][NextRatio]_vars

\* One call of associate_inner_outer_tracks.
InitAssoc ==
    /\ run = RunIdle /\ post = PostIdle /\ cr = CrIdle /\ reg = RegIdle
    /\ \E o \in AssocTracks, i \in AssocTracks, mc \in Containments :
          assoc = [AssocIdle EXCEPT !.pc = "call", !.min_containment = mc,
                                    !.outer_tracks = o, !.inner_tracks = i]
    /\ pipe = PipeIdle
    /\ fdf = FdfIdle
    /\ nc = NcIdle
    /\ sel = SelIdle
    /\ rep = RepIdle

NextAssoc == Associate

SpecAssoc == InitAssoc /\ [][NextAssoc]_vars

\* One call of register_images_pairwise; every step of the call is taken.
InitReg ==
    /\ run = RunIdle /\ post = PostIdle /\ cr = CrIdle /\ assoc = AssocIdle
    /\ \E residual_threshold_max \in ResidualMaxes :
          reg = RegStart(residual_threshold_max)
    /\ pipe = PipeIdle
    /\ fdf = FdfIdle
    /\ nc = NcIdle
    /\ sel = SelIdle
    /\ rep = RepIdle

NextReg ==
    \/ try_feature_registration
    \/ RansacTrial
    \/ RansacFailed
    \/ FallBackToPhaseCorrelation
    \/ try_phase_correlation
    \/ FallBackToIdentity

SpecReg == InitReg /\ [][NextReg]_vars /\ WF_vars(NextReg)

\* One call of remove_clockwise_contours on any Tracks, degenerate contours
\* included.
InitOrient ==
    /\ run = RunIdle /\ cr = CrIdle /\ assoc = AssocIdle /\ reg = RegIdle
    /\ pipe = PipeIdle
    /\ \E T \in OrientTracks :
          post = [PostStart(T, <<McNum, McDen>>) EXCEPT !.steps = MaxOps - 1]
    /\ fdf = FdfIdle
    /\ nc = NcIdle
    /\ sel = SelIdle
    /\ rep = RepIdle

NextOrient == RemoveClockwise

SpecOrient == InitOrient /\ [][NextOrient]_vars

\* One call of filter_combined_df.
InitFdf ==
    /\ run = RunIdle /\ post = PostIdle /\ cr = CrIdle /\ assoc = AssocIdle
    /\ reg = RegIdle /\ pipe = PipeIdle
    /\ \E filtering_kwargs \in UNION {[1 .. n -> FilterSpecs] : n \in 0 .. MaxFilters} :
          fdf = FdfStart(filtering_kwargs)
    /\ nc = NcIdle
    /\ sel = SelIdle
    /\ rep = RepIdle

NextFdf == ApplyNextFilter \/ ReturnFiltered

SpecFdf == InitFdf /\ [][NextFdf]_vars

\* One call of nested_cast.
InitCast ==
    /\ run = RunIdle /\ post = PostIdle /\ cr = CrIdle /\ assoc = AssocIdle
    /\ reg = RegIdle /\ pipe = PipeIdle /\ fdf = FdfIdle
    /\ \E a \in Nested2, b \in Nested2 : nc = [NcIdle EXCEPT !.pc = "call", !.a = a, !.b = b]
    /\ sel = SelIdle
    /\ rep = RepIdle

NextCast == NestedCast

SpecCast == InitCast /\ [][NextCast]_vars

\* One call of select_representative_frames.
InitRep ==
    /\ run = RunIdle /\ post = PostIdle /\ cr = CrIdle /\ assoc = AssocIdle
    /\ reg = RegIdle /\ pipe = PipeIdle /\ fdf = FdfIdle /\ nc = NcIdle
    /\ sel = SelIdle
    /\ \E df \in Dfs, n_frames \in 1 .. MaxNFrames :
          rep = [RepIdle EXCEPT !.pc = "call", !.df = df, !.n_frames = n_frames]

NextRep == SelectRepresentativeFrames

SpecRep == InitRep /\ [][NextRep]_vars

\* One call of apply_standard_sunspot_filter.
InitSel ==
    /\ run = RunIdle /\ post = PostIdle /\ cr = CrIdle /\ assoc = AssocIdle
    /\ reg = RegIdle /\ pipe = PipeIdle /\ fdf = FdfIdle /\ nc = NcIdle
    /\ \E sunspots \in SunspotsByObs(ObsIds), filtered_df \in SUBSET DfRows, columns \in BOOLEAN :
          sel = [SelIdle EXCEPT !.pc = "call", !.sunspots = sunspots,
                                !.filtered_df = filtered_df, !.columns = columns]
    /\ rep = RepIdle

NextSel == SelectSunspots

SpecSel == InitSel /\ [][NextSel]_vars

\* One call of track_and_merge_sunspots from the return of its matcher runs.
InitPipe ==
    /\ run = RunIdle /\ post = PostIdle /\ cr = CrIdle /\ assoc = AssocIdle
    /\ reg = RegIdle
    /\ \E outer \in MatcherTracks, inner \in SmallMatcherTracks,
          middle \in SmallMatcherTracks, mc \in {<<1, 2>>, <<McNum, McDen>>} :
          pipe = PipeStart(outer, inner, middle, mc)
    /\ fdf = FdfIdle
    /\ nc = NcIdle
    /\ sel = SelIdle
    /\ rep = RepIdle

NextPipe ==
    \/ FilterOrientation
    \/ RemoveNestedPenumbrae
    \/ AssociateUmbrae
    \/ AssociatePores
    \/ ReturnDict

SpecPipe == InitPipe /\ [][NextPipe]_vars

\* ------------------------------------------------------------------ claims
Lifetime(track) == Cardinality(DOMAIN track.hist)

\* Ids 0..n-1 in iteration order, lifetimes descending.
DenseDescending(T) ==
    /\ \A i \in DOMAIN T : T[i].id = i - 1
    /\ \A i, j \in DOMAIN T : i < j => Lifetime(T[i]) >= Lifetime(T[j])

\* Every track has a frame and every frame a contour.
WellFormed(T) ==
    \A k \in DOMAIN T :
        /\ DOMAIN T[k].hist # {}
        /\ \A f \in DOMAIN T[k].hist : T[k].hist[f] # <<>>

\* The candidates of frame t of a run: the contours kept by the area filter,
\* largest first.
Cands(rs, t) == sorted_by_area(filter_contours_by_area(rs.images[t + 1], rs.p.min_area))

\* C1: the tracks track_contours returns are exactly the built tracks with at
\* least min_frames distinct frames: each returned track has that many, and
\* each built track that has them is returned, once.
C1_MinLifetimeExact ==
    \A r \in Runs : run[r].pc = "done" =>
        LET built == run[r].tracks
            res == run[r].result
            long == {k \in DOMAIN built : Lifetime(built[k]) >= run[r].min_frames}
        IN /\ \A i \in DOMAIN res : Lifetime(res[i]) >= run[r].min_frames
           /\ Len(res) = Cardinality(long)
           /\ \A k \in long : \E i \in DOMAIN res : res[i].hist = built[k].hist
           /\ \A i \in DOMAIN res : \E k \in long : res[i].hist = built[k].hist

\* A return with min_frames = 2 that drops a built track and keeps another.
C1_Witness ==
    /\ run[1].pc = "done" /\ run[1].min_frames = 2
    /\ \E k \in DOMAIN run[1].tracks : Lifetime(run[1].tracks[k]) = 2
    /\ \E k \in DOMAIN run[1].tracks : Lifetime(run[1].tracks[k]) < 2
    /\ run[1].result # <<>>

\* C2: after a relabeling the ids are exactly 0..n-1 and a smaller id never has
\* fewer frames than a larger one; so for the tracks track_contours returns, for
\* the orientation-filtered tracks and for the output of remove_nested_tracks.
C2_RelabelMonotone ==
    \A r \in Runs : run[r].pc = "done" =>
        /\ DenseDescending(run[r].result)
        /\ DenseDescending(run[r].oriented)
        /\ DenseDescending(run[r].outer_tracks_filtered)

\* A return whose relabeling moved a track: the built tracks kept by the filter
\* are not in descending order of lifetime.
C2_Witness ==
    /\ run[1].pc = "done" /\ run[1].min_frames = 0
    /\ \E i, j \in DOMAIN run[1].tracks :
          i < j /\ Lifetime(run[1].tracks[i]) < Lifetime(run[1].tracks[j])
    /\ Len(run[1].outer_tracks_filtered) >= 2

C6_SingleChain ==
    \A r \in Runs :
        LET rs == run[r]
            N == Len(rs.images)
        IN (/\ rs.pc = "done"
            /\ ~rs.p.registration /\ rs.p.max_gap >= 1
            /\ N >= 1 /\ N >= rs.min_frames
            /\ \A t \in 0 .. (N - 1) : Len(Cands(rs, t)) = 1
            /\ \A t \in 1 .. (N - 1) :
                  Matches(Cands(rs, t)[1], Cands(rs, t - 1)[1], Identity))
           => rs.result = <<[id |-> 0,
                             hist |-> [t \in 0 .. (N - 1) |-> <<Cands(rs, t)[1]>>]]>>

\* Such a run of three frames, the candidates not all the same contour, one
\* frame with a second contour below min_area.
C6_Witness ==
    LET rs == run[1]
    IN /\ rs.pc = "done" /\ ~rs.p.registration /\ rs.p.max_gap = 1
       /\ Len(rs.images) = 3 /\ rs.min_frames = 2
       /\ \A t \in 0 .. 2 : Len(Cands(rs, t)) = 1
       /\ \A t \in 1 .. 2 : Matches(Cands(rs, t)[1], Cands(rs, t - 1)[1], Identity)
       /\ Cands(rs, 0) # Cands(rs, 1)
       /\ \E t \in 1 .. 3 : Len(rs.images[t]) = 2
       /\ Len(rs.result) = 1

\* C9: the Tracks returned by track_contours, by remove_clockwise_contours (on
\* them) and by remove_nested_tracks (on those) hold no track without a frame and
\* no frame without a contour.
C9_NoEmptyEntries ==
    \A r \in Runs : run[r].pc = "done" =>
        /\ WellFormed(run[r].result)
        /\ WellFormed(run[r].oriented)
        /\ WellFormed(run[r].outer_tracks_filtered)

\* A return where the orientation filter emptied a track and the resolver
\* emptied another.
C9_Witness ==
    /\ run[1].pc = "done"
    /\ Len(run[1].oriented) < Len(run[1].result)
    /\ Len(run[1].outer_tracks_filtered) < Len(run[1].oriented)
    /\ run[1].outer_tracks_filtered # <<>>


\* The mask of contour a of entry (k, f) of T.
MaskOf(T, k, f, a) == contours_to_mask(T[k].hist[f][a])

\* Entry (k, f) of T owns a mask that some mask of another track at frame f
\* contains to the fraction mc, the entry's mask being strictly smaller, or
\* equal in area with the other track earlier in iteration order.
Nested(T, k, f, mc) ==
    \E l \in DOMAIN T : \E a \in DOMAIN T[k].hist[f] :
        /\ l # k /\ f \in DOMAIN T[l].hist
        /\ \E b \in DOMAIN T[l].hist[f] :
              LET mine == MaskOf(T, k, f, a)
                  other == MaskOf(T, l, f, b)
              IN /\ \/ Cardinality(mine) < Cardinality(other)
                    \/ Cardinality(mine) = Cardinality(other) /\ l < k
                 /\ Cardinality(mine \cap other) * mc[2]
                      >= mc[1] * (IF mine = {} THEN 1 ELSE Cardinality(mine))

\* C4: remove_nested_tracks applied to its own output flags no entry and
\* returns Tracks equal to its input.
C4_NestedIdempotent ==
    (post.op = "remove_nested_tracks" /\ post.prev_op = "remove_nested_tracks") =>
        /\ post.to_remove = {}
        /\ post.cur = post.prev

\* A second pass over tracks the first pass reordered: two tracks still share a
\* frame with masks of equal area, and the first pass removed an entry.
C4_Witness ==
    /\ post.op = "remove_nested_tracks" /\ post.prev_op = "remove_nested_tracks"
    /\ Len(post.cur) = 2
    /\ Lifetime(post.cur[1]) > Lifetime(post.cur[2])
    /\ \E f \in DOMAIN post.cur[1].hist \cap DOMAIN post.cur[2].hist :
          \E a \in DOMAIN post.cur[1].hist[f], b \in DOMAIN post.cur[2].hist[f] :
             /\ Cardinality(MaskOf(post.cur, 1, f, a)) = Cardinality(MaskOf(post.cur, 2, f, b))
             /\ MaskOf(post.cur, 1, f, a) # MaskOf(post.cur, 2, f, b)

\* C7: find_nested_tracks flags entry (track, frame) exactly when one of its
\* masks is contained to the fraction min_containment in a mask of another track
\* at that frame and is strictly smaller than it, or equal in area with the entry's
\* track second in iteration order; so a pair flags only the owner of the smaller
\* mask, and id2 on a tie. With one frame and a smaller region inside a larger one
\* (min_containment <= 1) the result is one track holding the larger contour.
C7_SmallerFlagged ==
    post.op = "remove_nested_tracks" =>
        LET T == post.prev
            mc == post.min_containment
        IN /\ \A k \in DOMAIN T : \A f \in DOMAIN T[k].hist :
                (<<T[k].id, f>> \in post.to_remove) <=> Nested(T, k, f, mc)
           /\ \A f \in all_frames(T) :
                (/\ Len(T) = 2
                 /\ DOMAIN T[1].hist = {f} /\ DOMAIN T[2].hist = {f}
                 /\ Len(T[1].hist[f]) = 1 /\ Len(T[2].hist[f]) = 1
                 /\ \E s \in {1, 2} :
                       /\ MaskOf(T, s, f, 1) # {}
                       /\ MaskOf(T, s, f, 1) \subseteq MaskOf(T, 3 - s, f, 1)
                       /\ MaskOf(T, s, f, 1) # MaskOf(T, 3 - s, f, 1))
                => \E l \in {1, 2} :
                      /\ Cardinality(MaskOf(T, l, f, 1)) > Cardinality(MaskOf(T, 3 - l, f, 1))
                      /\ post.cur = <<[id |-> 0, hist |-> T[l].hist]>>

\* A pass on two tracks of one frame, the first a region inside the second's:
\* the first track's entry is the one flagged.
C7_Witness ==
    /\ post.op = "remove_nested_tracks" /\ post.steps = 1
    /\ Len(post.prev) = 2
    /\ \E f \in all_frames(post.prev) :
          /\ DOMAIN post.prev[1].hist = {f} /\ DOMAIN post.prev[2].hist = {f}
          /\ Len(post.prev[1].hist[f]) = 1 /\ Len(post.prev[2].hist[f]) = 1
          /\ MaskOf(post.prev, 1, f, 1) # {}
          /\ MaskOf(post.prev, 1, f, 1) \subseteq MaskOf(post.prev, 2, f, 1)
          /\ MaskOf(post.prev, 1, f, 1) # MaskOf(post.prev, 2, f, 1)
          /\ post.to_remove = {<<post.prev[1].id, f>>}
    /\ Len(post.cur) = 1

\* C5: containment_ratio(a, b) is |a AND b| / |a|, between 0 and 1; it is 1 when
\* a is non-empty and inside b, 0 when a and b are disjoint, and 0 (a fraction
\* with a non-zero denominator, no division by zero) when a is empty.
C5_RatioBounds ==
    cr.pc = "returned" =>
        LET a == cr.mask_small
            b == cr.mask_large
            num == cr.ratio[1]
            den == cr.ratio[2]
        IN /\ den > 0
           /\ 0 <= num /\ num <= den
           /\ (a # {} => num * Cardinality(a) = Cardinality(a \cap b) * den)
           /\ (a # {} /\ a \subseteq b => num = den)
           /\ (a \cap b = {} => num = 0)
           /\ (a = {} => num = 0)

\* A call that returned for an empty a and a non-empty b.
C5_Witness ==
    /\ cr.pc = "returned"
    /\ cr.mask_small = {} /\ cr.mask_large # {}
    /\ cr.ratio[1] = 0

\* The inner contours (track l, index a) at frame t that some outer contour of
\* outer track k at frame t contains to the fraction mc.
ContainedAt(k, t, mc) ==
    {la \in {<<l, a>> \in (DOMAIN assoc.inner_tracks) \X (1 .. MaxPerFrame) :
               /\ t \in DOMAIN assoc.inner_tracks[l].hist
               /\ a \in DOMAIN assoc.inner_tracks[l].hist[t]} :
        \E b \in DOMAIN assoc.outer_tracks[k].hist[t] :
            LET inner_mask == contours_to_mask(assoc.inner_tracks[la[1]].hist[t][la[2]])
                outer_mask == contours_to_mask(assoc.outer_tracks[k].hist[t][b])
            IN Cardinality(inner_mask \cap outer_mask) * mc[2]
                 >= mc[1] * (IF inner_mask = {} THEN 1 ELSE Cardinality(inner_mask))}

\* C8: result[o]["inner"][t] holds exactly the inner contours at frame t that
\* some outer contour of o at t contains to the fraction min_containment, each
\* once; a frame without such a contour has no key.
C8_InnerExactlyContained ==
    assoc.pc = "returned" =>
        \A k \in DOMAIN assoc.outer_tracks :
            LET inner == assoc.merged[k].inner
                mc == assoc.min_containment
            IN /\ DOMAIN inner \subseteq DOMAIN assoc.outer_tracks[k].hist
               /\ \A t \in DOMAIN assoc.outer_tracks[k].hist :
                    LET want == ContainedAt(k, t, mc)
                    IN /\ (t \in DOMAIN inner) <=> (want # {})
                       /\ t \in DOMAIN inner =>
                            /\ Len(inner[t]) = Cardinality(want)
                            /\ \A c \in PostShapes :
                                  Cardinality({i \in DOMAIN inner[t] : inner[t][i] = c})
                                  = Cardinality({la \in want :
                                       assoc.inner_tracks[la[1]].hist[t][la[2]] = c})

\* A call where two outer contours of one frame both contain an inner contour,
\* which is listed once, and another frame of the outer track has no key.
C8_Witness ==
    /\ assoc.pc = "returned"
    /\ \E k \in DOMAIN assoc.outer_tracks :
       \E t \in DOMAIN assoc.outer_tracks[k].hist :
          /\ Len(assoc.outer_tracks[k].hist[t]) = 2
          /\ t \in DOMAIN assoc.merged[k].inner
          /\ Len(assoc.merged[k].inner[t]) = 1
          /\ \A b \in 1 .. 2 :
                FracGeq(containment_ratio(
                            contours_to_mask(assoc.merged[k].inner[t][1]),
                            contours_to_mask(assoc.outer_tracks[k].hist[t][b])),
                        assoc.min_containment)

\* The order of the tiers at any point of a call: no exception leaves the call;
\* phase correlation is entered only after the feature tier failed; the identity
\* is returned only after phase correlation failed too; the returned transform
\* is that of the first tier that succeeded.
TierOrder ==
    /\ reg.pc # "propagated"
    /\ (reg.tier2 # "none" \/ reg.pc = "tier2") => reg.tier1 = "failed"
    /\ reg.tier1 = "ok" => (reg.tier2 = "none" /\ reg.pc = "returned")
    /\ reg.tier2 = "ok" => reg.pc = "returned"
    /\ reg.pc = "returned" =>
          /\ Len(reg.result) = 1
          /\ reg.tier1 = "ok" => (reg.returned_at = 1 /\ reg.result = reg.model)
          /\ (reg.tier1 = "failed" /\ reg.tier2 = "ok")
                => (reg.returned_at = 2 /\ reg.result = reg.shift)
          /\ reg.returned_at = 3 <=> (reg.tier1 = "failed" /\ reg.tier2 = "failed")
          /\ reg.returned_at = 3 => reg.result = <<Identity>>
          /\ reg.returned_at \in 1 .. 3

\* C10: register_images_pairwise always returns a transform and never lets an
\* exception out: the tiers are tried in the order features, phase correlation,
\* identity; a tier is tried only if the one before failed, and the result is
\* the transform of the first tier that succeeded.
C10_AlwaysReturnsFirstSuccess == []TierOrder /\ <>(reg.pc = "returned")

\* A call where the feature extraction raised RuntimeError, phase correlation
\* raised too, and the identity came back after both warnings.
C10_Witness ==
    /\ reg.pc = "returned"
    /\ reg.returned_at = 3
    /\ reg.result = <<Identity>>
    /\ Len(reg.warnings) = 2
    /\ reg.trials = <<>>

\* C11: a failure of contour extraction, rasterization, area or IoU computation
\* on one frame is absorbed as "no match": track_contours does not abort, it
\* processes the remaining frames and returns Tracks.
C11_FailureAbsorbed == \A r \in Runs : run[r].pc # "raised"

\* C12: a call of associate_inner_outer_tracks leaves outer_tracks and
\* inner_tracks as they were, and its result has one entry per outer track, in
\* order, whose "outer" is that track's frame-to-contours mapping.
C12_InputsUntouched ==
    [][(assoc.pc = "call" /\ assoc'.pc = "returned") =>
          /\ assoc'.outer_tracks = assoc.outer_tracks
          /\ assoc'.inner_tracks = assoc.inner_tracks
          /\ DOMAIN assoc'.merged = DOMAIN assoc.outer_tracks
          /\ \A k \in DOMAIN assoc.outer_tracks :
                /\ assoc'.merged[k].id = assoc.outer_tracks[k].id
                /\ assoc'.merged[k].outer = assoc.outer_tracks[k].hist]_vars

\* A call on two outer tracks that returned with inner contours under the
\* first and none under the second.
C12_Witness ==
    /\ assoc.pc = "returned"
    /\ Len(assoc.outer_tracks) = 2 /\ Len(assoc.merged) = 2
    /\ DOMAIN assoc.merged[1].inner # {}
    /\ DOMAIN assoc.merged[2].inner = {}
    /\ assoc.inner_tracks # <<>>

\* C13: the outer, inner and middle tracks of the returned dictionary are what
\* the three matcher runs returned: no step after the matcher changes them, and
\* outer_tracks_filtered alone is the oriented, relabelled, un-nested tracks.
C13_UnfilteredKept ==
    pipe.pc # "idle" =>
        /\ Deref(pipe.heap, pipe.outer_tracks) = pipe.matched.outer
        /\ Deref(pipe.heap, pipe.inner_tracks) = pipe.matched.inner
        /\ Deref(pipe.heap, pipe.middle_tracks) = pipe.matched.middle
        /\ pipe.pc = "returned" =>
              /\ pipe.result.outer_tracks = pipe.matched.outer
              /\ pipe.result.inner_tracks = pipe.matched.inner
              /\ pipe.result.middle_tracks = pipe.matched.middle
              /\ pipe.result.outer_tracks_filtered =
                    remove_nested_tracks(
                        relabel_tracks_by_lifetime(
                            remove_clockwise_contours(pipe.matched.outer)),
                        pipe.min_containment)

\* A return where the filtering removed a contour of the outer tracks and an
\* umbra was associated with what is left.
C13_Witness ==
    /\ pipe.pc = "returned"
    /\ Len(pipe.result.outer_tracks) = 2
    /\ Len(pipe.result.outer_tracks_filtered) = 1
    /\ \E k \in DOMAIN pipe.result.outer_tracks :
          \E f \in DOMAIN pipe.result.outer_tracks[k].hist :
             ~is_ccw(pipe.result.outer_tracks[k].hist[f][1])
    /\ DOMAIN pipe.result.sunspots[1].inner # {}

\* The contours of a list whose signed area is not negative, in order.
RECURSIVE KeepNonNegative(_)
KeepNonNegative(contours) ==
    IF contours = <<>> THEN <<>>
    ELSE IF contour_signed_area(Head(contours)) >= 0
         THEN <<Head(contours)>> \o KeepNonNegative(Tail(contours))
         ELSE KeepNonNegative(Tail(contours))

\* C14: remove_clockwise_contours keeps, in order, every contour whose signed
\* area is >= 0 and removes every contour whose signed area is negative; frames
\* left empty and tracks left without frames are dropped; ids are unchanged.
C14_RemovesExactlyNegative ==
    post.op = "remove_clockwise_contours" =>
        LET T == post.prev
            frames(k) == {f \in DOMAIN T[k].hist : KeepNonNegative(T[k].hist[f]) # <<>>}
            filtered == [k \in DOMAIN T |->
                           [id |-> T[k].id,
                            hist |-> [f \in frames(k) |-> KeepNonNegative(T[k].hist[f])]]]
        IN post.cur = KeepIdx(filtered, 1, {k \in DOMAIN T : frames(k) # {}})

\* C15: when a filter of filtering_kwargs has an unknown mode or names a column
\* the DataFrame lacks, filter_combined_df raises before any filter has been
\* evaluated or applied.
C15_RaisesBeforeWork ==
    (\E i \in DOMAIN fdf.filtering_kwargs :
        \/ ~fdf.filtering_kwargs[i].present
        \/ fdf.filtering_kwargs[i].mode \notin Modes)
    => /\ fdf.evaluated = 0 /\ fdf.applied = 0
       /\ fdf.pc # "returned"

\* Somewhere in y a mapping has another key set than the mapping of x at the
\* same place, a sequence another length, or an array another shape.
RECURSIVE Mismatch(_, _)
Mismatch(x, y) ==
    IF x.kind \in Mappings /\ y.kind \in Mappings
    THEN \/ DOMAIN x.kids # DOMAIN y.kids
         \/ \E k \in DOMAIN x.kids \cap DOMAIN y.kids : Mismatch(x.kids[k], y.kids[k])
    ELSE IF x.kind = "list" /\ y.kind = "list"
    THEN \/ Len(x.kids) # Len(y.kids)
         \/ \E k \in DOMAIN x.kids \cap DOMAIN y.kids : Mismatch(x.kids[k], y.kids[k])
    ELSE x.kind = "ndarray" /\ y.kind = "ndarray" /\ x.n # y.n

\* r has the key set of x at every mapping and the length of x at every
\* sequence.
RECURSIVE SameStructure(_, _)
SameStructure(x, r) ==
    IF x.kind \in Mappings \cup {"list"}
    THEN /\ (r.kind \in Mappings <=> x.kind \in Mappings)
         /\ (r.kind = "list" <=> x.kind = "list")
         /\ DOMAIN r.kids = DOMAIN x.kids
         /\ \A k \in DOMAIN x.kids : SameStructure(x.kids[k], r.kids[k])
    ELSE r.kind \notin Mappings \cup {"list"}

\* C16: nested_cast(a, b) raises, returning nothing, whenever b differs from a
\* somewhere in a key set, a sequence length or an array shape; whenever it
\* returns, the result has a's key set at every mapping and a's length at every
\* sequence.
C16_CastStructure ==
    nc.pc \in {"returned", "raised"} =>
        /\ Mismatch(nc.a, nc.b) => (nc.pc = "raised" /\ nc.result = NcIdle.result)
        /\ nc.pc = "returned" => SameStructure(nc.a, nc.result)

\* A raise on a key set that differs one level down, and not at the root.
C16_Witness ==
    /\ nc.pc = "raised" /\ nc.exc = "ValueError"
    /\ nc.a.kind = "dict" /\ nc.b.kind = "dict"
    /\ DOMAIN nc.a.kids = {1} /\ DOMAIN nc.b.kids = {1}
    /\ nc.a.kids[1].kind = "dict" /\ nc.b.kids[1].kind = "defaultdict"
    /\ DOMAIN nc.a.kids[1].kids = {1} /\ DOMAIN nc.b.kids[1].kids = {1, 2}

\* The entries of a nested dict d[obs][spot][region][frame] = data.
Leaves(d) ==
    UNION {UNION {UNION {{<<o, i, r, f, d[o][i][r][f]>> : f \in DOMAIN d[o][i][r]}
                            : r \in DOMAIN d[o][i]}
                     : i \in DOMAIN d[o]}
              : o \in DOMAIN d}

\* C17: apply_standard_sunspot_filter returns the Sunspots pruned to the rows of
\* filtered_df: for each (observation_id, sunspot_id) listed, each region of
\* the spot restricted to the frames listed for the pair, with its data, and
\* nothing else.
C17_PrunedToRows ==
    sel.pc = "returned" =>
        Leaves(sel.selected)
          = {e \in Leaves(sel.sunspots) : <<e[1], e[2], e[4]>> \in sel.filtered_df}

\* C18: for a DataFrame with at least one row in a listed phase and
\* n_frames >= 1, select_representative_frames returns exactly n_frames frame
\* indices in ascending order.
C18_ExactlyNFrames ==
    (/\ rep.pc = "returned"
     /\ rep.n_frames >= 1
     /\ \E f \in DOMAIN rep.df : rep.df[f] # "other")
    => /\ Len(rep.result) = rep.n_frames
       /\ \A i \in 1 .. (Len(rep.result) - 1) : rep.result[i] <= rep.result[i + 1]

\* Track k of rs has, dt frames back, a contour that matches a candidate of the
\* frame that took rs to rs2, and no other existing track took that candidate.
MatchableAt(rs, rs2, k, dt) ==
    LET t == Len(rs.images)
        hist == rs.tracks[k].hist
        pair_key == <<t - dt, t>>
        others == (1 .. Len(rs.tracks)) \ {k}
        taken(c) == \E j \in others :
                       /\ t \in DOMAIN rs2.tracks[j].hist
                       /\ \E n \in DOMAIN rs2.tracks[j].hist[t] : rs2.tracks[j].hist[t][n] = c
    IN /\ t - dt >= 0
       /\ (t - dt) \in DOMAIN hist
       /\ rs.p.registration => pair_key \in DOMAIN rs2.registration_cache
       /\ \E m \in DOMAIN hist[t - dt], i \in DOMAIN rs2.contours :
             /\ ~taken(rs2.contours[i])
             /\ Matches(rs2.contours[i], hist[t - dt][m],
                        IF rs.p.registration THEN rs2.registration_cache[pair_key]
                        ELSE Identity)

\* C19: when frame t is processed, every existing track that has, at some
\* lookback dt in 1..max_gap, a contour matching a candidate of frame t that no
\* other track took is extended with a candidate at frame t, whatever was
\* matched for the other tracks.
C19_EveryTrackLooksBack ==
    [][(/\ run[1].pc = "loop" /\ run'[1].pc = "loop"
        /\ Len(run'[1].images) = Len(run[1].images) + 1)
       => \A k \in 1 .. Len(run[1].tracks) :
             (\E dt \in 1 .. run[1].p.max_gap : MatchableAt(run[1], run'[1], k, dt))
             => Len(run[1].images) \in DOMAIN run'[1].tracks[k].hist]_vars

\* Candidate c qualifies for the prior contour prev_c warped by tr: its area
\* ratio is within the bounds, both inclusive, and its IoU reaches the threshold.
Qualifies(c, prev_c, tr) ==
    LET prev_mask == contours_to_mask(warp_contour(prev_c, tr))
        mask == contours_to_mask(c)
    IN /\ contour_area(prev_c) > 0
       /\ RminNum * contour_area(prev_c) <= contour_area(c) * RminDen
       /\ contour_area(c) * RmaxDen <= RmaxNum * contour_area(prev_c)
       /\ Cardinality(prev_mask \cup mask) > 0
       /\ Cardinality(prev_mask \cap mask) * IouDen
            >= IouNum * Cardinality(prev_mask \cup mask)

\* IoU(prev_c warped by tr, c2) > IoU(prev_c warped by tr, c), both unions non-empty.
HigherIou(c2, c, prev_c, tr) ==
    LET prev_mask == contours_to_mask(warp_contour(prev_c, tr))
        m == contours_to_mask(c)
        m2 == contours_to_mask(c2)
    IN Cardinality(prev_mask \cap m2) * Cardinality(prev_mask \cup m)
         > Cardinality(prev_mask \cap m) * Cardinality(prev_mask \cup m2)

\* In the frame that took rs to rs2, the candidate at index i is the first one
\* (in the area-sorted candidate list) qualifying for the contour m of track k
\* dt frames back, among those no earlier track took.
FirstQualifyingFor(rs, rs2, k, dt, m, i) ==
    LET t == Len(rs.images)
        hist == rs.tracks[k].hist
        pair_key == <<t - dt, t>>
        tr == rs2.registration_cache[pair_key]
        taken(c) == \E j \in 1 .. (k - 1) :
                       /\ t \in DOMAIN rs2.tracks[j].hist
                       /\ \E n \in DOMAIN rs2.tracks[j].hist[t] : rs2.tracks[j].hist[t][n] = c
    IN /\ t - dt >= 0
       /\ (t - dt) \in DOMAIN hist
       /\ m \in DOMAIN hist[t - dt]
       /\ pair_key \in DOMAIN rs2.registration_cache
       /\ Qualifies(rs2.contours[i], hist[t - dt][m], tr)
       /\ \A i2 \in 1 .. (i - 1) :
             Qualifies(rs2.contours[i2], hist[t - dt][m], tr) => taken(rs2.contours[i2])

\* C20: the candidate appended to an existing track at frame t is, for some prior
\* contour p of the track within the lookback, the first candidate in
\* descending-area order, among those still unassigned, whose area ratio to p is
\* within the inclusive bounds and whose IoU with the warped p reaches the
\* threshold; it is the only one appended, whatever the IoU of later candidates.
C20_FirstQualifying ==
    [][(/\ run[1].pc = "loop" /\ run'[1].pc = "loop"
        /\ Len(run'[1].images) = Len(run[1].images) + 1)
       => LET t == Len(run[1].images)
              contours == run'[1].contours
          IN /\ \A i, j \in DOMAIN contours :
                   i < j => contour_area(contours[i]) >= contour_area(contours[j])
             /\ \A k \in 1 .. Len(run[1].tracks) :
                   t \in DOMAIN run'[1].tracks[k].hist =>
                      /\ Len(run'[1].tracks[k].hist[t]) = 1
                      /\ \E dt \in 1 .. run[1].p.max_gap, m \in 1 .. MaxCand,
                            i \in DOMAIN contours :
                            /\ contours[i] = run'[1].tracks[k].hist[t][1]
                            /\ FirstQualifyingFor(run[1], run'[1], k, dt, m, i)]_vars

\* A track was extended at the last frame with the first qualifying candidate
\* while a later candidate qualifies for the same prior contour with a higher IoU.
C20_Witness ==
    /\ run[1].pc = "loop"
    /\ Len(run[1].images) >= 2
    /\ LET rs == run[1]
           t == Len(rs.images) - 1
       IN \E k \in 1 .. Len(rs.tracks), dt \in 1 .. rs.p.max_gap :
             /\ t \in DOMAIN rs.tracks[k].hist
             /\ t - dt >= 0
             /\ (t - dt) \in DOMAIN rs.tracks[k].hist
             /\ <<t - dt, t>> \in DOMAIN rs.registration_cache
             /\ \E m \in DOMAIN rs.tracks[k].hist[t - dt], i, i2 \in DOMAIN rs.contours :
                   LET prev_c == rs.tracks[k].hist[t - dt][m]
                       tr == rs.registration_cache[<<t - dt, t>>]
                   IN /\ i < i2
                      /\ rs.contours[i] = rs.tracks[k].hist[t][1]
                      /\ Qualifies(rs.contours[i], prev_c, tr)
                      /\ Qualifies(rs.contours[i2], prev_c, tr)
                      /\ HigherIou(rs.contours[i2], rs.contours[i], prev_c, tr)
                      /\ \A j \in 1 .. (k - 1) :
                            t \in DOMAIN rs.tracks[j].hist
                            => rs.tracks[j].hist[t][1] # rs.contours[i2]

\* Whether contour c is in the frame-t list of track tr.
HoldsAt(tr, t, c) ==
    t \in DOMAIN tr.hist /\ \E n \in DOMAIN tr.hist[t] : tr.hist[t][n] = c

\* C21: in a frame step every candidate no existing track accepted becomes the
\* only contour of one new track {t: [c]}; ids are issued 0, 1, 2, ... by a
\* counter that only grows, so no two tracks share an id, and every existing
\* track keeps its id and the frames it had.
C21_FreshIds ==
    [][(/\ run[1].pc = "loop" /\ run'[1].pc = "loop"
        /\ Len(run'[1].images) = Len(run[1].images) + 1)
       => LET t == Len(run[1].images)
              old == run[1].tracks
              new == run'[1].tracks
              contours == run'[1].contours
              accepted(c) == \E k \in 1 .. Len(old) : HoldsAt(new[k], t, c)
          IN /\ Len(new) >= Len(old)
             /\ run'[1].next_id = run[1].next_id + (Len(new) - Len(old))
             /\ \A k \in 1 .. Len(new) : new[k].id = k - 1 /\ new[k].id < run'[1].next_id
             /\ \A k, j \in 1 .. Len(new) : k # j => new[k].id # new[j].id
             /\ \A k \in 1 .. Len(old) :
                   /\ new[k].id = old[k].id
                   /\ \A f \in DOMAIN old[k].hist :
                         f \in DOMAIN new[k].hist /\ new[k].hist[f] = old[k].hist[f]
             /\ \A k \in (Len(old) + 1) .. Len(new) :
                   /\ new[k].id >= run[1].next_id
                   /\ DOMAIN new[k].hist = {t}
                   /\ Len(new[k].hist[t]) = 1
                   /\ \E i \in DOMAIN contours : contours[i] = new[k].hist[t][1]
                   /\ ~accepted(new[k].hist[t][1])
             /\ \A i \in DOMAIN contours :
                   ~accepted(contours[i]) =>
                      Cardinality({k \in (Len(old) + 1) .. Len(new) :
                                      new[k].hist[t] = <<contours[i]>>}) = 1]_vars

\* The last frame extended an existing track and started a new one.
C21_Witness ==
    /\ run[1].pc = "loop"
    /\ Len(run[1].images) >= 2
    /\ LET t == Len(run[1].images) - 1
           tracks == run[1].tracks
       IN /\ \E k \in DOMAIN tracks : t \in DOMAIN tracks[k].hist /\ DOMAIN tracks[k].hist # {t}
          /\ \E j \in DOMAIN tracks : DOMAIN tracks[j].hist = {t}

\* C22: in a run of track_contours the registration routine is invoked at most
\* once per (t_prev, t) pair, exactly for the pairs in the cache, and a cached
\* transform never changes, so every comparison for a pair uses the same one;
\* with registration disabled it is never invoked and every pair has the
\* identity.
C22_RegisteredOnce ==
    [][(/\ run[1].pc = "loop" /\ run'[1].pc = "loop"
        /\ Len(run'[1].images) = Len(run[1].images) + 1)
       => LET cache == run'[1].registration_cache
              calls == run'[1].registered
          IN /\ \A pair_key \in DOMAIN run[1].registration_cache :
                   /\ pair_key \in DOMAIN cache
                   /\ cache[pair_key] = run[1].registration_cache[pair_key]
             /\ \A pair_key \in DOMAIN calls : calls[pair_key] <= 1
             /\ run[1].p.registration => DOMAIN calls = DOMAIN cache
             /\ ~run[1].p.registration =>
                   /\ DOMAIN calls = {}
                   /\ \A pair_key \in DOMAIN cache : cache[pair_key] = Identity]_vars

\* With registration on, two tracks looked up the pair (t - 1, t) in the last
\* frame, neither was extended, and the pair was registered once.
C22_Witness ==
    /\ run[1].pc = "loop"
    /\ run[1].p.registration
    /\ Len(run[1].images) >= 2
    /\ LET t == Len(run[1].images) - 1
           tracks == run[1].tracks
       IN /\ <<t - 1, t>> \in DOMAIN run[1].registered
          /\ run[1].registered[<<t - 1, t>>] = 1
          /\ run[1].contours # <<>>
          /\ \E k, j \in DOMAIN tracks :
                /\ k # j
                /\ (t - 1) \in DOMAIN tracks[k].hist /\ t \notin DOMAIN tracks[k].hist
                /\ (t - 1) \in DOMAIN tracks[j].hist /\ t \notin DOMAIN tracks[j].hist

\* Consecutive frame indices of every track in `tracks` differ by at most max_gap
\* (and, being distinct keys, by at least 1).
GapsWithin(tracks, max_gap) ==
    \A k \in DOMAIN tracks :
        \A f \in DOMAIN tracks[k].hist :
            \/ \A g \in DOMAIN tracks[k].hist : f <= g
            \/ \E g \in DOMAIN tracks[k].hist : g < f /\ f - g <= max_gap

\* C23: in every track track_contours builds or returns, two consecutive frame
\* indices differ by at least 1 and at most max_gap; with max_gap = 0 every
\* built track has exactly one frame and the returned Tracks are empty whenever
\* min_frames >= 2.
C23_GapBound ==
    run[1].pc \in {"loop", "done"} =>
       /\ GapsWithin(run[1].tracks, run[1].p.max_gap)
       /\ GapsWithin(run[1].result, run[1].p.max_gap)
       /\ run[1].p.max_gap = 0 =>
             /\ \A k \in DOMAIN run[1].tracks :
                   Cardinality(DOMAIN run[1].tracks[k].hist) = 1
             /\ (run[1].pc = "done" /\ run[1].min_frames >= 2) => run[1].result = <<>>

\* A returned track bridges a gap of exactly max_gap = 2 frames.
C23_Witness ==
    /\ run[1].pc = "done"
    /\ run[1].p.max_gap = 2
    /\ \E k \in DOMAIN run[1].result :
          \E f \in DOMAIN run[1].result[k].hist :
             /\ (f + 2) \in DOMAIN run[1].result[k].hist
             /\ (f + 1) \notin DOMAIN run[1].result[k].hist

\* The frame-to-contours mapping of track k of `tracks` without the frames
\* flagged in to_remove.
Unflagged(tracks, k, to_remove) ==
    [f \in {g \in DOMAIN tracks[k].hist : <<tracks[k].id, g>> \notin to_remove}
        |-> tracks[k].hist[f]]

\* C24: remove_nested_tracks removes exactly the flagged (track, frame) entries:
\* the result's tracks are, one for one and under new ids, the input tracks that
\* keep an unflagged frame, each with exactly its unflagged frames and their
\* contour lists unchanged; a track wholly flagged is absent and no track is new.
C24_RemovesExactlyFlagged ==
    post.op = "remove_nested_tracks" =>
       LET kept == {k \in DOMAIN post.prev :
                       DOMAIN Unflagged(post.prev, k, post.to_remove) # {}}
           same(h) == {k \in kept : Unflagged(post.prev, k, post.to_remove) = h}
       IN /\ post.to_remove = find_nested_tracks(post.prev, post.min_containment)
          /\ Len(post.cur) = Cardinality(kept)
          /\ \A n \in DOMAIN post.cur :
                /\ DOMAIN post.cur[n].hist # {}
                /\ Cardinality({m \in DOMAIN post.cur : post.cur[m].hist = post.cur[n].hist})
                     = Cardinality(same(post.cur[n].hist))
          /\ \A k \in kept :
                \E n \in DOMAIN post.cur :
                   post.cur[n].hist = Unflagged(post.prev, k, post.to_remove)

\* A call that removed one track wholly, cut another and left an entry unflagged.
C24_Witness ==
    /\ post.op = "remove_nested_tracks"
    /\ \E k \in DOMAIN post.prev :
          /\ DOMAIN post.prev[k].hist # {}
          /\ DOMAIN Unflagged(post.prev, k, post.to_remove) = {}
    /\ \E k \in DOMAIN post.prev :
          /\ DOMAIN Unflagged(post.prev, k, post.to_remove) # {}
          /\ DOMAIN Unflagged(post.prev, k, post.to_remove) # DOMAIN post.prev[k].hist

\* C25: within one frame an inner contour is associated with the first outer
\* contour containing it only: it is listed in the "inner" list of at most one
\* entry of the result, so a contour is listed at frame t no more often, over
\* all entries, than the inner tracks hold it at t.
C25_InnerInOneEntry ==
    assoc.pc = "returned" =>
       \A t \in 0 .. MaxPostFrames, c \in PostShapes :
          Cardinality({ki \in (DOMAIN assoc.merged) \X (1 .. MaxAssocContours) :
                          /\ t \in DOMAIN assoc.merged[ki[1]].inner
                          /\ ki[2] \in DOMAIN assoc.merged[ki[1]].inner[t]
                          /\ assoc.merged[ki[1]].inner[t][ki[2]] = c})
            <= Cardinality({la \in (DOMAIN assoc.inner_tracks) \X (1 .. MaxAssocContours) :
                          /\ t \in DOMAIN assoc.inner_tracks[la[1]].hist
                          /\ la[2] \in DOMAIN assoc.inner_tracks[la[1]].hist[t]
                          /\ assoc.inner_tracks[la[1]].hist[t][la[2]] = c})

\* The frame mappings of the tracks of T that have n frames, in iteration order.
HistsOfLifetime(T, n) ==
    LET has(tr) == Cardinality(DOMAIN tr.hist) = n
        picked == SelectSeq(T, has)
    IN [i \in DOMAIN picked |-> picked[i].hist]

\* C26: relabel_tracks_by_lifetime re-keys without changing content: the result
\* has the ids 0..n-1 in order of descending lifetime, the tracks of each
\* lifetime are the input tracks of that lifetime in their input order with
\* their frame mappings unchanged, none added or dropped; a second relabeling
\* changes nothing.
C26_StableRekeying ==
    post.op = "relabel_tracks_by_lifetime" =>
       /\ Len(post.cur) = Len(post.prev)
       /\ DenseDescending(post.cur)
       /\ \A n \in 0 .. MaxPostFrames :
             HistsOfLifetime(post.cur, n) = HistsOfLifetime(post.prev, n)
       /\ post.prev_op = "relabel_tracks_by_lifetime" => post.cur = post.prev

\* A relabeling of two tracks of equal lifetime and different content.
C26_Witness ==
    /\ post.op = "relabel_tracks_by_lifetime"
    /\ \E i, j \in DOMAIN post.prev :
          /\ i < j
          /\ Lifetime(post.prev[i]) = Lifetime(post.prev[j])
          /\ post.prev[i].hist # post.prev[j].hist

\* The thresholds tried so far are 1.0, 1.25, 1.5, ... in order, none above
\* residual_threshold_max; tier 1 returns the model of its last trial; once the
\* loop has failed every threshold up to the maximum was tried.
TrialsInOrder ==
    LET all == IF reg.residual_threshold_max < ResidualStart THEN 0
               ELSE ((reg.residual_threshold_max - ResidualStart) \div ResidualStep) + 1
    IN /\ \A i \in DOMAIN reg.trials :
             /\ reg.trials[i] = ResidualStart + (i - 1) * ResidualStep
             /\ reg.trials[i] <= reg.residual_threshold_max
       /\ Len(reg.trials) <= all
       /\ reg.returned_at = 1 =>
             reg.trials # <<>> /\ reg.model # <<>> /\ reg.result = reg.model
       /\ (reg.pc = "ransac" /\ reg.residual_threshold <= reg.residual_threshold_max)
             => Len(reg.trials) < all
       /\ (reg.pc = "ransac" /\ reg.residual_threshold > reg.residual_threshold_max)
             => Len(reg.trials) = all
       /\ (reg.tier1 = "failed" /\ reg.trials # <<>>) => Len(reg.trials) = all

\* C27: the consensus loop of tier 1 terminates: it tries the thresholds 1.0,
\* 1.25, 1.5, ... in increasing order, none above residual_threshold_max (none
\* at all when that is below 1.0), returns the model of the first trial giving
\* a finite one, and otherwise leaves the loop by failing after the last
\* threshold.
C27_ConsensusLoopTerminates ==
    /\ []TrialsInOrder
    /\ (reg.pc = "ransac") ~> (reg.pc \in {"returned", "raised1"})

\* The loop tried every threshold from 1.0 to 3.5 without a finite model and
\* the call went on to phase correlation.
C27_Witness ==
    /\ reg.residual_threshold_max = ResidualMaxDefault
    /\ reg.tier1 = "failed"
    /\ Len(reg.trials) = ResidualMaxDefault - ResidualStart + 1
    /\ reg.trials[Len(reg.trials)] = ResidualMaxDefault

\* Every (track, frame) entry of T holds exactly one contour.
OneContourPerEntry(T) ==
    \A k \in DOMAIN T : \A f \in DOMAIN T[k].hist : Len(T[k].hist[f]) = 1

\* C28: in every state of a run of track_contours and in the Tracks it returns,
\* each (track, frame) entry holds exactly one contour: an existing track
\* accepts at most one candidate per frame and a new track starts with one.
C28_OneContourPerEntry ==
    run[1].pc \in {"loop", "done"} =>
       OneContourPerEntry(run[1].tracks) /\ OneContourPerEntry(run[1].result)

\* A returned track took one candidate of a frame while the frame's other
\* candidate, which qualifies for the same prior contour, started a track.
C28_Witness ==
    /\ run[1].pc = "done"
    /\ \E k \in DOMAIN run[1].result, j \in DOMAIN run[1].tracks :
       \E f \in DOMAIN run[1].result[k].hist :
          /\ (f + 1) \in DOMAIN run[1].result[k].hist
          /\ DOMAIN run[1].tracks[j].hist = {f + 1}
          /\ <<f, f + 1>> \in DOMAIN run[1].registration_cache
          /\ run[1].tracks[j].hist[f + 1][1] # run[1].result[k].hist[f + 1][1]
          /\ Qualifies(run[1].tracks[j].hist[f + 1][1], run[1].result[k].hist[f][1],
                       run[1].registration_cache[<<f, f + 1>>])

\* C29: after frame t is processed its candidates (the contours with area >=
\* min_area) are partitioned among the tracks: each is in the frame-t list of
\* exactly one track, once, and the frame-t lists hold nothing else.
C29_CandidatesPartitioned ==
    (run[1].pc = "loop" /\ run[1].images # <<>>) =>
       LET t == Len(run[1].images) - 1
           tracks == run[1].tracks
           found == run[1].images[t + 1]
           places(c) == {kn \in (DOMAIN tracks) \X (1 .. MaxCand) :
                            /\ t \in DOMAIN tracks[kn[1]].hist
                            /\ kn[2] \in DOMAIN tracks[kn[1]].hist[t]
                            /\ tracks[kn[1]].hist[t][kn[2]] = c}
       IN /\ \A i \in DOMAIN found :
                contour_area(found[i]) >= run[1].p.min_area
                => Cardinality(places(found[i])) = 1
          /\ \A k \in DOMAIN tracks :
                t \in DOMAIN tracks[k].hist =>
                   \A n \in DOMAIN tracks[k].hist[t] :
                      \E i \in DOMAIN found :
                         /\ found[i] = tracks[k].hist[t][n]
                         /\ contour_area(found[i]) >= run[1].p.min_area

\* The last frame had two candidates and two existing tracks took one each.
C29_Witness ==
    /\ run[1].pc = "loop"
    /\ Len(run[1].images) >= 2
    /\ Len(run[1].contours) = 2
    /\ LET t == Len(run[1].images) - 1
           tracks == run[1].tracks
       IN \E k, j \in DOMAIN tracks :
             /\ k # j
             /\ t \in DOMAIN tracks[k].hist /\ DOMAIN tracks[k].hist # {t}
             /\ t \in DOMAIN tracks[j].hist /\ DOMAIN tracks[j].hist # {t}

\* The first track, in iteration order, among those with the largest mask at
\* frame f; every entry of T at f holds one contour.
FirstLargestAt(T, f) ==
    LET active == {k \in DOMAIN T : f \in DOMAIN T[k].hist}
        area(k) == Cardinality(contours_to_mask(T[k].hist[f][1]))
    IN CHOOSE m \in active :
          /\ \A k \in active : area(k) <= area(m)
          /\ \A k \in active : k < m => area(k) < area(m)

\* C30: on Tracks whose entries hold one contour each, remove_nested_tracks
\* never empties a frame: at every frame of the input the first track among
\* those with the largest mask is not flagged, whatever min_containment, and
\* the result has a track with data at that frame.
C30_FrameNeverEmptied ==
    (post.op = "remove_nested_tracks" /\ OneContourPerEntry(post.prev)) =>
       \A f \in all_frames(post.prev) :
          /\ <<post.prev[FirstLargestAt(post.prev, f)].id, f>> \notin post.to_remove
          /\ f \in all_frames(post.cur)

\* A call on one-contour entries where two tracks hold masks of equal area at a
\* frame and the second of them was flagged.
C30_Witness ==
    /\ post.op = "remove_nested_tracks"
    /\ OneContourPerEntry(post.prev)
    /\ \E f \in all_frames(post.prev), k \in DOMAIN post.prev :
          /\ f \in DOMAIN post.prev[k].hist
          /\ k # FirstLargestAt(post.prev, f)
          /\ Cardinality(contours_to_mask(post.prev[k].hist[f][1]))
               = Cardinality(contours_to_mask(
                                post.prev[FirstLargestAt(post.prev, f)].hist[f][1]))
          /\ <<post.prev[k].id, f>> \in post.to_remove

====
